---- MODULE Spec2Model ----
(***************************************************************************)
(* A model of oldpaint's drawing core: the packed picture (LongPicture),   *)
(* its diff codec (make_diff / apply_diff), paste / blit, and flood fill.  *)
(*                                                                         *)
(* A 32-bit element is kept as the pair <<lo, hi>>: lo is the palette      *)
(* index byte (bits 0..7), hi the upper 24 bits (bits 8..31), so that the  *)
(* alpha byte is hi \div 2^16 and arithmetic wraps modulo 2^32.            *)
(***************************************************************************)
EXTENDS Integers, Sequences, FiniteSets, TLC

VARIABLES
    dest,        \* the picture written to (self of apply_diff/paste, pic or dest of draw_*)
    src,         \* the picture passed along (pic of make_diff, the brush, the fill source)
    saved,       \* dest and src as they were before the calls: [dest, src]
    call,        \* the arguments of the call under way
    diffs,       \* the short[] difference array in use
    applied,     \* the invert flags of the apply_diff calls made so far
    result,      \* the value the last call returned
    pc,          \* where the call sequence stands
    written,     \* the offsets of dest the last call stored to
    stack,       \* draw_fill's stack of points
    fill,        \* draw_fill's locals: start_col, xmin, xmax, ymin, ymax
    stamps       \* the samples of the last line at which it stamped or set

vars == <<dest, src, saved, call, diffs, applied, result, pc, written, stack, fill,
          stamps>>

diffVars == <<diffs, applied>>
fillVars == <<stack, fill>>

\* ------------------------------------------------------------------ bounds

\* width and height of the pictures of the diff specifications
DiffW == 2
DiffH == 2
\* how many apply_diff calls follow one another
MaxApply == 2
\* width and height of the pictures pasted onto, and of the brushes
PasteW == 2
PasteH == 2
BrushW == 2
BrushH == 2
\* width and height of the pictures filled, and how many of their pixels
\* differ from the background
FillW == 3
FillH == 3
MaxWalls == 2
\* calls off canvas: the picture drawn on, how far outside it coordinates
\* reach, the largest radius of an ellipse and the largest step of a line
ClipW == 3
ClipH == 3
Margin == 1
MaxRadius == 2
MaxStep == 2
\* width and height of the pictures cleared, set, read and flipped
BufW == 3
BufH == 2

\* rectangles: positions 0 .. RectMax on each axis, sizes 0 .. RectMax; at
\* most MaxOps operations follow one another
RectMax == 2
MaxOps == 2

\* --------------------------------------------------------- 32-bit elements

Pow8 == 256
Pow16 == 65536
Pow24 == 16777216

None == [none |-> TRUE]

U32(lo, hi) == <<lo, hi>>

\* v & 0xFF
Byte0(v) == v[1]

\* v >> 24
Alpha(v) == v[2] \div Pow16

\* unsigned int value + (int) d, modulo 2^32
Add32(v, d) ==
    LET s == v[1] + d
    IN  <<s % Pow8, (v[2] + (s \div Pow8)) % Pow24>>

Sub32(v, d) == Add32(v, 0 - d)

\* the largest and the smallest value of a C int
IntMax == (Pow16 \div 2 - 1) * Pow16 + (Pow16 - 1)
IntMin == (0 - IntMax) - 1

\* a + b on C ints: the sum modulo 2^32, read as a signed value
IntAdd(a, b) ==
    IF b > 0 /\ a > IntMax - b
    THEN (a - IntMax - 1) + (b - IntMax - 1)
    ELSE IF b < 0 /\ a < IntMin - b
         THEN (a + IntMax + 1) + (b + IntMax + 1)
         ELSE a + b

\* a - b on C ints
IntSub(a, b) == IF b = IntMin THEN IntAdd(IntAdd(a, IntMax), 1) ELSE IntAdd(a, 0 - b)

\* byte i of the two's complement form of a
IntByte(a, i) ==
    (CASE i = 0 -> a  [] i = 1 -> a \div Pow8  [] i = 2 -> a \div Pow16
       [] i = 3 -> a \div Pow24) % Pow8

\* a * b on C ints: the product modulo 2^32, read as a signed value; computed
\* byte by byte, the sums of the products of bytes carried upwards
IntMul(a, b) ==
    LET col(k) == LET term(i) == IF i <= k THEN IntByte(a, i) * IntByte(b, k - i) ELSE 0
                  IN  term(0) + term(1) + term(2) + term(3)
        t0 == col(0)
        t1 == col(1) + t0 \div Pow8
        t2 == col(2) + t1 \div Pow8
        t3 == col(3) + t2 \div Pow8
        top == t3 % Pow8
    IN  (t0 % Pow8) + (t1 % Pow8) * Pow8 + (t2 % Pow8) * Pow16
            + (IF top >= 128 THEN top - Pow8 ELSE top) * Pow24

_rgba_to_32bit(r, g, b, a) ==
    <<r % Pow8, ((r \div Pow8) + g + b * Pow8 + a * Pow16) % Pow24>>

\* _rgb_to_32bit with alpha 0 in the place of 255
_rgb_to_32bit_clear(r, g, b) == _rgba_to_32bit(r, g, b, 0)

_rgb_to_32bit(r, g, b) == _rgba_to_32bit(r, g, b, 255)

Zero == U32(0, 0)

\* --------------------------------------------------------------- pictures

\* LongPicture(size): zero-filled data of length width * height
LongPicture(w, h) ==
    [width |-> w, height |-> h, data |-> [i \in 0 .. (w * h - 1) |-> Zero]]

_get_offset(self, x, y) == self.width * y + x

InBounds(self, x, y) == (0 <= x /\ x < self.width) /\ (0 <= y /\ y < self.height)

set_pixel(self, x, y, value) ==
    IF InBounds(self, x, y)
    THEN [self EXCEPT !.data[_get_offset(self, x, y)] = value]
    ELSE self

\* what get_pixel answers outside the picture: it raises ValueError
ValueError == -1

\* LongPicture.get_pixel, and pic[x, y]: the index byte of the element
get_pixel(self, x, y) ==
    IF InBounds(self, x, y)
    THEN Byte0(self.data[_get_offset(self, x, y)])
    ELSE ValueError

\* an unsigned int colour as an element
ToU32(color) == U32(color % Pow8, color \div Pow8)

\* ------------------------------------------------------------- diff codec

\* the offset of row y1 of the rectangle: offset starts at _get_offset(x, y)
\* and grows by self.width after every row
row_offset(self, x, y, y1) == _get_offset(self, x, y) + y1 * self.width

\* diff_entry with the subtraction the wrong way round
diff_entry_reversed(self, pic, offset) ==
    IF Alpha(pic.data[offset]) # 0
    THEN Byte0(self.data[offset]) - Byte0(pic.data[offset])
    ELSE 0

\* one entry of the difference: the index byte delta where pic is not transparent
diff_entry(self, pic, offset) ==
    IF Alpha(pic.data[offset]) # 0
    THEN Byte0(pic.data[offset]) - Byte0(self.data[offset])
    ELSE 0

make_diff(self, pic, x, y, w, h) ==
    [k \in 0 .. (w * h - 1) |->
        LET y1 == k \div w
            x1 == k % w
            \* start == y1 * w, so start + x1 == k
        IN  diff_entry(self, pic, row_offset(self, x, y, y1) + x1)]

\* diff_value with the invert branch a copy of the other branch
diff_value_always_adds(value, diff, invert) == Add32(value, diff)

\* the value apply_diff writes: value - diff when inverting, else value + diff
diff_value(value, diff, invert) ==
    IF invert THEN Sub32(value, diff) ELSE Add32(value, diff)

RECURSIVE apply_loop(_, _, _, _, _, _, _, _)
apply_loop(self, difference, x, y, w, h, invert, k) ==
    IF k >= w * h
    THEN self
    ELSE LET y1 == k \div w
             x1 == k % w
             value == self.data[row_offset(self, x, y, y1) + x1]
             diff == difference[y1 * w + x1]
         IN  apply_loop(set_pixel(self, x + x1, y + y1, diff_value(value, diff, invert)),
                        difference, x, y, w, h, invert, k + 1)

apply_diff(self, difference, x, y, w, h, invert) ==
    apply_loop(self, difference, x, y, w, h, invert, 0)

\* ------------------------------------------------------------ diff inputs

\* elements of the picture a diff is applied to: zero, the largest element,
\* an opaque index 0, an opaque index 200
PicElems == <<Zero, U32(255, Pow24 - 1), U32(0, 255 * Pow16), U32(200, 255 * Pow16)>>

\* elements of the edited picture: transparent with an index, opaque 255, opaque 0
EditElems == <<U32(7, 0), U32(255, 255 * Pow16), U32(0, 255 * Pow16)>>

\* entries of a difference array (a C short)
DiffVals == <<0 - 32768, 0 - 255, 0 - 1, 0, 1, 255, 32767>>

\* a picture whose element at offset i is elems[(i + s) mod Len(elems)]
PatternPicture(w, h, elems, s) ==
    [width |-> w, height |-> h,
     data |-> [i \in 0 .. (w * h - 1) |-> elems[((i + s) % Len(elems)) + 1]]]

ConstPicture(w, h, e) ==
    [width |-> w, height |-> h, data |-> [i \in 0 .. (w * h - 1) |-> e]]

\* the rectangles (x, y, w, h) lying inside a picture of size cols x rows
RectsInside(cols, rows) ==
    {r \in (0 .. cols) \X (0 .. rows) \X (0 .. cols) \X (0 .. rows) :
        r[1] + r[3] <= cols /\ r[2] + r[4] <= rows}

\* the offsets of the pixels of rectangle (x, y, w, h) in self
RectOffsets(self, x, y, w, h) ==
    {_get_offset(self, px, py) : px \in x .. (x + w - 1), py \in y .. (y + h - 1)}

\* ---------------------------------------- specification: applying a diff

InitApply ==
    /\ \E s \in 0 .. (Len(PicElems) - 1) :
          dest = PatternPicture(DiffW, DiffH, PicElems, s)
    /\ src = None
    /\ saved = [dest |-> dest, src |-> src]
    /\ \E r \in RectsInside(DiffW, DiffH) :
          /\ call = [x |-> r[1], y |-> r[2], w |-> r[3], h |-> r[4]]
          /\ \E t \in 0 .. (Len(DiffVals) - 1) :
                diffs = [k \in 0 .. (r[3] * r[4] - 1) |->
                            DiffVals[((k + t) % Len(DiffVals)) + 1]]
    /\ applied = <<>>
    /\ result = None
    /\ pc = "diff"
    /\ written = {}
    /\ stack = <<>>
    /\ fill = None
    /\ stamps = {}

ApplyDiff ==
    /\ pc = "diff"
    /\ Len(applied) < MaxApply
    /\ \E invert \in BOOLEAN :
          /\ dest' = apply_diff(dest, diffs, call.x, call.y, call.w, call.h, invert)
          /\ applied' = Append(applied, invert)
    /\ result' = None
    /\ UNCHANGED <<src, saved, call, diffs, pc, written, fillVars, stamps>>

SpecApply == InitApply /\ [][ApplyDiff]_vars

\* the element of picture p at (x, y)
At(p, x, y) == p.data[y * p.width + x]

\* the pixels (px, py) of the rectangle of the call
CallPixels == (call.x .. (call.x + call.w - 1)) \X (call.y .. (call.y + call.h - 1))

AllPixels(p) == (0 .. (p.width - 1)) \X (0 .. (p.height - 1))

\* C1: applying a diff over a rectangle inside the picture and then applying it
\* inverted leaves every element of the rectangle equal to what it was before
\* the two calls, wrap-around modulo 2^32 included, and no apply_diff call
\* changes an element outside the rectangle.
C1_ApplyThenInvertRestores ==
    /\ applied = <<FALSE, TRUE>> =>
          \A q \in CallPixels : At(dest, q[1], q[2]) = At(saved.dest, q[1], q[2])
    /\ \A q \in AllPixels(dest) \ CallPixels :
          At(dest, q[1], q[2]) = At(saved.dest, q[1], q[2])

\* C1 witness: both calls were made over a rectangle of several rows that is
\* narrower than the picture, and the first call wrapped the largest element
\* around 2^32 by adding 32767 to it.
C1_Witness ==
    /\ applied = <<FALSE, TRUE>>
    /\ call.h >= 2 /\ call.w >= 1 /\ call.w < dest.width
    /\ \E q \in CallPixels :
          /\ At(saved.dest, q[1], q[2]) = U32(255, Pow24 - 1)
          /\ diffs[(q[2] - call.y) * call.w + (q[1] - call.x)] = 32767

\* --------------------------- specification: making a diff and applying it

\* the edited pictures: the patterns, and one that is transparent everywhere
EditedPictures ==
    {PatternPicture(DiffW, DiffH, EditElems, s) : s \in 0 .. (Len(EditElems) - 1)}
        \cup {ConstPicture(DiffW, DiffH, U32(7, 0))}

InitDiff ==
    /\ \E s \in 0 .. (Len(PicElems) - 1) :
          dest = PatternPicture(DiffW, DiffH, PicElems, s)
    /\ src \in EditedPictures
    /\ saved = [dest |-> dest, src |-> src]
    /\ \E r \in RectsInside(DiffW, DiffH) :
          call = [x |-> r[1], y |-> r[2], w |-> r[3], h |-> r[4]]
    /\ diffs = <<>>
    /\ applied = <<>>
    /\ result = None
    /\ pc = "start"
    /\ written = {}
    /\ stack = <<>>
    /\ fill = None
    /\ stamps = {}

\* d = A.make_diff(B, x, y, w, h)
MakeDiff ==
    /\ pc = "start"
    /\ diffs' = make_diff(dest, src, call.x, call.y, call.w, call.h)
    /\ result' = diffs'
    /\ pc' = "diff"
    /\ UNCHANGED <<dest, src, saved, call, applied, written, fillVars, stamps>>

NextDiff == MakeDiff \/ ApplyDiff

SpecDiff == InitDiff /\ [][NextDiff]_vars

\* the edited picture is transparent at every pixel of the rectangle
EditedTransparent == \A q \in CallPixels : Alpha(At(src, q[1], q[2])) = 0

\* C2: applying d = A.make_diff(B, R) to a copy of A gives, at every pixel of R
\* where B is not transparent, exactly B's element (index byte and alpha byte
\* alike); applying d inverted after that gives A's element at every pixel of R.
C2_RoundTripReproducesEdited ==
    /\ (pc = "diff" /\ applied = <<FALSE>>) =>
          \A q \in CallPixels :
              Alpha(At(src, q[1], q[2])) # 0 => At(dest, q[1], q[2]) = At(src, q[1], q[2])
    /\ (pc = "diff" /\ applied = <<FALSE, TRUE>>) =>
          \A q \in CallPixels : At(dest, q[1], q[2]) = At(saved.dest, q[1], q[2])

\* C3: make_diff returns w*h entries in row-major order of the rectangle; the
\* entry of pixel p is B's index byte minus A's where B's alpha byte is not
\* zero, and 0 elsewhere; every entry is in -255..255; A and B are left as they
\* were; and where B is transparent in the whole rectangle the diff is all
\* zeros and applying it in either direction changes no pixel.
C3_MakeDiffEntries ==
    pc = "diff" =>
      /\ DOMAIN diffs = 0 .. (call.w * call.h - 1)
      /\ \A q \in CallPixels :
            LET e == diffs[(q[2] - call.y) * call.w + (q[1] - call.x)]
                a == At(saved.dest, q[1], q[2])
                b == At(saved.src, q[1], q[2])
            IN  /\ e = (IF Alpha(b) # 0 THEN Byte0(b) - Byte0(a) ELSE 0)
                /\ e \in (0 - 255) .. 255
      /\ src = saved.src
      /\ applied = <<>> => dest = saved.dest
      /\ EditedTransparent =>
            /\ \A k \in DOMAIN diffs : diffs[k] = 0
            /\ dest = saved.dest

\* C3 witness: a diff over a rectangle of several rows, narrower than the
\* picture, holding 255, -255 and a zero for a transparent pixel.
C3_Witness ==
    /\ pc = "diff"
    /\ call.h >= 2 /\ call.w < dest.width
    /\ \E k \in DOMAIN diffs : diffs[k] = 255
    /\ \E q \in CallPixels :
          /\ Alpha(At(src, q[1], q[2])) = 0
          /\ Byte0(At(src, q[1], q[2])) # Byte0(At(saved.dest, q[1], q[2]))

\* -------------------------------------------------------------- rectangles

Max(a, b) == IF a >= b THEN a ELSE b
Min(a, b) == IF a <= b THEN a ELSE b

\* Rectangle(position, size)
Rectangle(x, y, w, h) == [x |-> x, y |-> y, width |-> w, height |-> h]

Left(r) == r.x
Top(r) == r.y
Right(r) == r.x + r.width
Bottom(r) == r.y + r.height

\* Rectangle.__bool__
Truthy(r) == r.width > 0 /\ r.height > 0

\* intersect that hands back the other rectangle as it is
intersect_unclipped(self, other) == other

intersect(self, other) ==
    IF other = None \/ ~Truthy(other)
    THEN None
    ELSE IF \/ Right(self) <= Left(other) \/ Left(self) >= Right(other)
            \/ Bottom(self) <= Top(other) \/ Top(self) >= Bottom(other)
         THEN None
         ELSE LET x == Max(Left(self), Left(other))
                  y == Max(Top(self), Top(other))
              IN  Rectangle(x, y, Min(Right(self), Right(other)) - x,
                            Min(Bottom(self), Bottom(other)) - y)

\* pic.rect
PicRect(p) == Rectangle(0, 0, p.width, p.height)

\* ------------------------------------------------------------ paste, blit

\* the mask test with the shift left out: any non-zero element counts as opaque
paste_writes_nonzero(mask, elem) == ~mask \/ elem # Zero

\* "if not mask or pic.data[offset1+x1] >> 24": whether a source element is copied
paste_writes(mask, elem) == ~mask \/ Alpha(elem) # 0

\* the state of a drawing loop: the picture written to, the offsets stored to,
\* (for blit) the running bounding box, whether the loop did something whose
\* behaviour is undefined, and (for a line) the samples it stamped or set at
LoopState(p, xmin, ymin) ==
    [pic |-> p, written |-> {}, xmin |-> xmin, xmax |-> 0, ymin |-> ymin, ymax |-> 0,
     undefined |-> FALSE, stamps |-> {}, samples |-> {}, path |-> <<>>,
     endless |-> FALSE]

\* self.set_pixel(x2, y2, value) inside a loop
put_pixel(st, x2, y2, value) ==
    IF InBounds(st.pic, x2, y2)
    THEN [st EXCEPT !.pic = set_pixel(st.pic, x2, y2, value),
                    !.written = @ \cup {_get_offset(st.pic, x2, y2)}]
    ELSE st

\* self.data[offset] = value inside a loop
put_data(st, offset, value) ==
    [st EXCEPT !.pic.data[offset] = value, !.written = @ \cup {offset}]

\* the store of one source element, as each version of the loop makes it:
\*   "set_pixel"  LongPicture.paste, through set_pixel
\*   "colorize"   LongPicture.paste with colorize: the colour, opaque
\*   "data"       the older LongPicture.paste: self.data[offset2+x1]
\*   "index"      _cblit: pic[x2, y2]
\*   "blit"       blit: pic[x2, y2], and the bounding box
paste_store(st, c, x1, y1, x2, y2, elem) ==
    CASE c.how = "set_pixel" -> put_pixel(st, x2, y2, elem)
      [] c.how = "colorize" -> put_pixel(st, x2, y2, _rgba_to_32bit(c.color, 0, 0, 255))
      [] c.how = "data" ->
            put_data(st, _get_offset(st.pic, c.x, c.y) + y1 * st.pic.width + x1, elem)
      [] c.how = "index" -> put_data(st, _get_offset(st.pic, x2, y2), elem)
      [] c.how = "blit" ->
            [put_data(st, _get_offset(st.pic, x2, y2), elem) EXCEPT
                !.xmin = Min(@, x2), !.xmax = Max(@, x2),
                !.ymin = Min(@, y2), !.ymax = Max(@, y2)]

\* the source element read for (x1, y1): pic.data[offset1+x1], offset1 growing
\* by w after every row, or brush[x1, y1]
paste_source(pic, x1, y1) == pic.data[y1 * pic.width + x1]

RECURSIVE paste_cols(_, _, _, _)
paste_cols(st, c, y1, x1) ==
    IF x1 >= c.pic.width
    THEN st
    ELSE LET x2 == c.x + x1
             y2 == c.y + y1
             elem == paste_source(c.pic, x1, y1)
         IN  IF x2 < 0
             THEN paste_cols(st, c, y1, x1 + 1)                 \* continue
             ELSE IF x2 >= st.pic.width
                  THEN st                                       \* break
                  ELSE IF paste_writes(c.mask, elem)
                       THEN paste_cols(paste_store(st, c, x1, y1, x2, y2, elem),
                                       c, y1, x1 + 1)
                       ELSE paste_cols(st, c, y1, x1 + 1)

RECURSIVE paste_rows(_, _, _)
paste_rows(st, c, y1) ==
    IF y1 >= c.pic.height
    THEN st
    ELSE LET y2 == c.y + y1
         IN  IF y2 < 0
             THEN paste_rows(st, c, y1 + 1)                     \* continue
             ELSE IF y2 >= st.pic.height
                  THEN st                                       \* break
                  ELSE paste_rows(paste_cols(st, c, y1, 0), c, y1 + 1)

\* LongPicture.paste(pic, x, y, mask, colorize, color): returns nothing
paste(self, pic, x, y, mask, colorize, color) ==
    paste_rows(LoopState(self, 0, 0),
               [pic |-> pic, x |-> x, y |-> y, mask |-> mask, color |-> color,
                how |-> IF colorize THEN "colorize" ELSE "set_pixel"], 0)

\* the older LongPicture.paste(pic, x, y, mask), storing into self.data
paste_data(self, pic, x, y, mask) ==
    paste_rows(LoopState(self, 0, 0),
               [pic |-> pic, x |-> x, y |-> y, mask |-> mask, color |-> 0,
                how |-> "data"], 0)

\* _cblit(pic, brush, x, y)
_cblit(pic, brush, x, y) ==
    paste_rows(LoopState(pic, 0, 0),
               [pic |-> brush, x |-> x, y |-> y, mask |-> TRUE, color |-> 0,
                how |-> "index"], 0)

\* blit(pic, brush, x, y): the loop, then the Rectangle it returns
blit_loop(pic, brush, x, y) ==
    paste_rows(LoopState(pic, pic.width, pic.height),
               [pic |-> brush, x |-> x, y |-> y, mask |-> TRUE, color |-> 0,
                how |-> "blit"], 0)

blit_result(st) ==
    Rectangle(st.xmin, st.ymin, st.xmax - st.xmin + 1, st.ymax - st.ymin + 1)

\* ------------------------------------------------ specification: pasting

\* brush elements: transparent with index 9, opaque index 5, index 0 with alpha 1
BrushElems == <<U32(9, 0), U32(5, 255 * Pow16), U32(0, Pow16)>>

\* the elements of an unsigned char brush, as blit takes it
ByteElems == <<U32(0, 0), U32(3, 0), U32(255, 0)>>

Brushes ==
    {PatternPicture(BrushW, BrushH, BrushElems, s) : s \in 0 .. (Len(BrushElems) - 1)}
        \cup {ConstPicture(BrushW, BrushH, BrushElems[1]),
              ConstPicture(BrushW, BrushH, BrushElems[2])}

ByteBrushes ==
    {PatternPicture(BrushW, BrushH, ByteElems, s) : s \in 0 .. (Len(ByteElems) - 1)}

\* colours passed to a colorizing paste (an unsigned char)
PasteColors == {3, 255}

\* where a brush is put: from wholly left of / above the picture to wholly
\* right of / below it
PasteXs == (0 - BrushW) .. dest.width
PasteYs == (0 - BrushH) .. dest.height

InitPaste ==
    /\ \E s \in 0 .. (Len(PicElems) - 1) :
          dest = PatternPicture(PasteW, PasteH, PicElems, s)
    /\ src \in Brushes \cup ByteBrushes
    /\ saved = [dest |-> dest, src |-> src]
    /\ call = [op |-> "none"]
    /\ diffs = <<>>
    /\ applied = <<>>
    /\ result = None
    /\ pc = "start"
    /\ written = {}
    /\ stack = <<>>
    /\ fill = None
    /\ stamps = {}

\* self.paste(pic, x, y, mask, colorize, color)
Paste ==
    /\ pc = "start"
    /\ src \in Brushes
    /\ \E x \in PasteXs, y \in PasteYs, mask \in BOOLEAN, colorize \in BOOLEAN,
          color \in PasteColors :
          LET st == paste(dest, src, x, y, mask, colorize, color)
          IN  /\ dest' = st.pic
              /\ written' = st.written
              /\ call' = [op |-> "paste", x |-> x, y |-> y, mask |-> mask,
                          colorize |-> colorize, color |-> color]
    /\ result' = None
    /\ pc' = "done"
    /\ UNCHANGED <<src, saved, diffVars, fillVars, stamps>>

\* the older self.paste(pic, x, y, mask)
PasteData ==
    /\ pc = "start"
    /\ src \in Brushes
    /\ \E x \in PasteXs, y \in PasteYs, mask \in BOOLEAN :
          LET st == paste_data(dest, src, x, y, mask)
          IN  /\ dest' = st.pic
              /\ written' = st.written
              /\ call' = [op |-> "paste_data", x |-> x, y |-> y, mask |-> mask]
    /\ result' = None
    /\ pc' = "done"
    /\ UNCHANGED <<src, saved, diffVars, fillVars, stamps>>

\* _cblit(pic, brush, x, y)
CBlit ==
    /\ pc = "start"
    /\ src \in Brushes
    /\ \E x \in PasteXs, y \in PasteYs :
          LET st == _cblit(dest, src, x, y)
          IN  /\ dest' = st.pic
              /\ written' = st.written
              /\ call' = [op |-> "_cblit", x |-> x, y |-> y, mask |-> TRUE]
    /\ result' = None
    /\ pc' = "done"
    /\ UNCHANGED <<src, saved, diffVars, fillVars, stamps>>

\* blit(pic, brush, x, y), brush an unsigned char array
Blit ==
    /\ pc = "start"
    /\ src \in ByteBrushes
    /\ \E x \in PasteXs, y \in PasteYs :
          LET st == blit_loop(dest, src, x, y)
          IN  /\ dest' = st.pic
              /\ written' = st.written
              /\ result' = blit_result(st)
              /\ call' = [op |-> "blit", x |-> x, y |-> y, mask |-> TRUE]
    /\ pc' = "done"
    /\ UNCHANGED <<src, saved, diffVars, fillVars, stamps>>

NextPaste == Paste \/ PasteData \/ CBlit \/ Blit

SpecPaste == InitPaste /\ [][NextPaste]_vars

\* the pixel (x, y) an offset of picture p addresses
PixelOf(p, offset) == <<offset % p.width, offset \div p.width>>

\* the bounding rectangle of a non-empty set of offsets of picture p
BoundingBox(p, offsets) ==
    LET xs == {PixelOf(p, o)[1] : o \in offsets}
        ys == {PixelOf(p, o)[2] : o \in offsets}
        x0 == CHOOSE v \in xs : \A u \in xs : v <= u
        x1 == CHOOSE v \in xs : \A u \in xs : v >= u
        y0 == CHOOSE v \in ys : \A u \in ys : v <= u
        y1 == CHOOSE v \in ys : \A u \in ys : v >= u
    IN  Rectangle(x0, y0, x1 - x0 + 1, y1 - y0 + 1)

\* the source element lying over pixel q of dest is inside the brush and transparent
SourceTransparentOver(q) ==
    LET sx == q[1] - call.x
        sy == q[2] - call.y
    IN  /\ 0 <= sx /\ sx < src.width /\ 0 <= sy /\ sy < src.height
        /\ Alpha(At(src, sx, sy)) = 0

\* C8: a masked paste (either version of LongPicture.paste, colorizing or not,
\* and _cblit) leaves every pixel of the destination whose source element has
\* alpha byte 0 at the value it had before the call.
C8_MaskedPasteKeepsTransparent ==
    (pc = "done" /\ call.op \in {"paste", "paste_data", "_cblit"} /\ call.mask) =>
        \A q \in AllPixels(dest) :
            SourceTransparentOver(q) => At(dest, q[1], q[2]) = At(saved.dest, q[1], q[2])

\* C8 witness: a masked paste hanging over the left edge that stored some
\* pixel and skipped a transparent source element lying over the picture.
C8_Witness ==
    /\ pc = "done" /\ call.op = "paste" /\ call.mask /\ call.x < 0
    /\ written # {}
    /\ dest # saved.dest
    /\ \E q \in AllPixels(dest) : SourceTransparentOver(q)

\* C9: paste returns the bounding rectangle of the destination pixels it
\* stored to, and none when it stored to none (as when the source does not
\* overlap the destination); stated of LongPicture.paste and of blit.
C9_PasteReturnsWrittenBox ==
    (pc = "done" /\ call.op \in {"paste", "blit"}) =>
        IF written = {} THEN result = None ELSE result = BoundingBox(dest, written)

\* -------------------------------------------------------------- draw_fill

\* A fill is described by c = [masked, source, start_col, color, y]: masked is
\* FALSE for draw_fill(pic, point, color), which reads and colours pic, and
\* TRUE for draw_fill(pic, dest, point, color), which reads the unsigned char
\* array pic (c.source) and colours dest. The loop state st holds the picture
\* coloured, the stack, the reach flags and the bounding box.

\* pic[x, y] as the fill reads it. A fill whose loop reads outside the picture
\* is one whose first read was outside it and went on: get_pixel is declared
\* "cpdef unsigned int" with no except clause, so in a build that cannot pass
\* the error on, the call reports it and returns 0.
fill_source(c, st, x, y) ==
    IF c.masked THEN Byte0(c.source.data[_get_offset(c.source, x, y)])
    ELSE LET v == get_pixel(st.pic, x, y)
         IN  IF v = ValueError THEN 0 ELSE v

\* the loop condition without the test of dest
fill_open_unmarked(c, st, x, y) == c.start_col = fill_source(c, st, x, y)

\* the loop condition: pic[x, y] == start_col (and dest[x, y] != color)
fill_open(c, st, x, y) ==
    /\ c.start_col = fill_source(c, st, x, y)
    /\ c.masked => st.pic.data[_get_offset(st.pic, x, y)] # ToU32(c.color)

\* the neighbour test with the comparison inverted
fill_reaches_inverted(c, st, x, y) == c.start_col # fill_source(c, st, x, y)

\* start_col == pic[x, y-1], start_col == pic[x, y+1]
fill_reaches(c, st, x, y) == c.start_col = fill_source(c, st, x, y)

\* the early return test with the mask left out
fill_is_noop_unmasked(start_col, color) == start_col = color

\* start_col == color & 0xFF
fill_is_noop(start_col, color) == start_col = color % Pow8

\* "search left": x runs down while the pixel is open, then x += 1
RECURSIVE search_left(_, _, _, _)
search_left(c, st, x, y) ==
    IF x >= 0 /\ fill_open(c, st, x, y)
    THEN search_left(c, st, x - 1, y)
    ELSE x + 1

\* "check pixel above" / "check pixel below": dy is -1 or 1
check_row(c, st, x, dy) ==
    LET flag == IF dy < 0 THEN st.reach_top ELSE st.reach_bottom
        set(s, v) == IF dy < 0 THEN [s EXCEPT !.reach_top = v]
                     ELSE [s EXCEPT !.reach_bottom = v]
    IN  IF fill_reaches(c, st, x, c.y + dy)
        THEN IF ~flag
             THEN set([st EXCEPT !.stack = Append(@, <<x, c.y + dy>>),
                                 !.pushed = @ + 1], TRUE)
             ELSE st
        ELSE IF flag THEN set(st, FALSE) ELSE st

\* "color this pixel", and the bounding box: pic[x, y] = color is set_pixel,
\* which stores nothing outside the picture; dest[x, y] = color is a plain store
fill_color(c, st, x) ==
    [(IF c.masked \/ InBounds(st.pic, x, c.y)
      THEN [st EXCEPT !.pic.data[_get_offset(st.pic, x, c.y)] = ToU32(c.color),
                      !.written = @ \cup {_get_offset(st.pic, x, c.y)}]
      ELSE st) EXCEPT
               !.colored = @ + 1,
               !.xmin = Min(@, x), !.xmax = Max(@, x),
               !.ymin = Min(@, c.y), !.ymax = Max(@, c.y)]

\* "search right"
RECURSIVE scan_right(_, _, _)
scan_right(c, st, x) ==
    IF x < st.pic.width /\ fill_open(c, st, x, c.y)
    THEN LET s1 == fill_color(c, st, x)
             s2 == IF 0 < c.y /\ c.y < st.pic.height - 1
                   THEN check_row(c, check_row(c, s1, x, -1), x, 1)
                   ELSE s1
         IN  scan_right(c, s2, x + 1)
    ELSE st

\* one turn of "while stack": pop a point, search left, search right
fill_step(c0, st0) ==
    LET point == st0.stack[Len(st0.stack)]
        c == [c0 EXCEPT !.y = point[2]]
        st == [st0 EXCEPT !.stack = SubSeq(@, 1, Len(@) - 1),
                          !.reach_top = FALSE, !.reach_bottom = FALSE]
    IN  scan_right(c, st, search_left(c, st, point[1], point[2]))

\* ------------------------------------------------------- fill inputs

\* the sets of at most MaxWalls offsets of a FillW x FillH picture
WallSets == {S \in SUBSET (0 .. (FillW * FillH - 1)) : Cardinality(S) <= MaxWalls}

WallPicture(walls, ground, wall) ==
    [width |-> FillW, height |-> FillH,
     data |-> [i \in 0 .. (FillW * FillH - 1) |-> IF i \in walls THEN wall ELSE ground]]

\* the colours filled with: a new one, and one above 255 whose low byte is
\* the colour of the walls
FillColors == {2, 257}

\* the destinations of a masked fill: clear, holding colour 2 everywhere, and
\* holding colour 2 at every other offset
FillOverlays ==
    {ConstPicture(FillW, FillH, Zero), ConstPicture(FillW, FillH, ToU32(2)),
     PatternPicture(FillW, FillH, <<Zero, ToU32(2)>>, 0)}

\* ------------------------------------------ specification: flood filling

InitFill ==
    /\ \E walls \in WallSets :
          \/ /\ dest = WallPicture(walls, Zero, U32(1, 255 * Pow16))
             /\ src = None
          \/ /\ src = WallPicture(walls, U32(0, 0), U32(1, 0))
             /\ dest \in FillOverlays
    /\ saved = [dest |-> dest, src |-> src]
    /\ call = [op |-> "none"]
    /\ diffs = <<>>
    /\ applied = <<>>
    /\ result = None
    /\ pc = "start"
    /\ written = {}
    /\ stack = <<>>
    /\ fill = None
    /\ stamps = {}

\* the locals of a fill as the loop starts
FillLocals(masked, start_col, color, w, h) ==
    [masked |-> masked, start_col |-> start_col, color |-> color,
     reach_top |-> FALSE, reach_bottom |-> FALSE,
     xmin |-> w, xmax |-> 0, ymin |-> h, ymax |-> 0,
     pushed |-> 1, colored |-> 0]

\* the call of a fill up to the loop, start_col being the seed's colour
FillEnter(op, masked, point, color, start_col, w, h) ==
    /\ call' = [op |-> op, point |-> point, color |-> color]
    /\ written' = {}
    /\ IF start_col = ValueError
       THEN /\ pc' = "raised"
            /\ result' = None
            /\ UNCHANGED fillVars
       ELSE IF fill_is_noop(start_col, color)
            THEN /\ pc' = "done"
                 /\ result' = None
                 /\ UNCHANGED fillVars
            ELSE /\ pc' = "loop"
                 /\ stack' = <<point>>
                 /\ fill' = FillLocals(masked, start_col, color, w, h)
                 /\ UNCHANGED result
    /\ UNCHANGED <<dest, src, saved, diffVars, stamps>>

FillPoints == (0 .. (FillW - 1)) \X (0 .. (FillH - 1))

\* draw_fill(pic, point, color) up to its loop
DrawFill ==
    /\ pc = "start"
    /\ src = None
    /\ \E point \in FillPoints, color \in FillColors :
          FillEnter("draw_fill", FALSE, point, color,
                    get_pixel(dest, point[1], point[2]), dest.width, dest.height)

\* draw_fill(pic, dest, point, color) up to its loop
DrawFillMasked ==
    /\ pc = "start"
    /\ src # None
    /\ \E point \in FillPoints, color \in FillColors :
          FillEnter("draw_fill_masked", TRUE, point, color,
                    Byte0(src.data[_get_offset(src, point[1], point[2])]),
                    src.width, src.height)

\* one turn of the loop
FillStep ==
    /\ pc = "loop"
    /\ stack # <<>>
    /\ LET c == [masked |-> fill.masked, source |-> src, start_col |-> fill.start_col,
                 color |-> fill.color, y |-> 0]
           st0 == [pic |-> dest, written |-> written, stack |-> stack,
                   reach_top |-> fill.reach_top, reach_bottom |-> fill.reach_bottom,
                   xmin |-> fill.xmin, xmax |-> fill.xmax,
                   ymin |-> fill.ymin, ymax |-> fill.ymax,
                   pushed |-> fill.pushed, colored |-> fill.colored]
           st == fill_step(c, st0)
       IN  /\ dest' = st.pic
           /\ written' = st.written
           /\ stack' = st.stack
           /\ fill' = [fill EXCEPT !.reach_top = st.reach_top,
                                   !.reach_bottom = st.reach_bottom,
                                   !.xmin = st.xmin, !.xmax = st.xmax,
                                   !.ymin = st.ymin, !.ymax = st.ymax,
                                   !.pushed = st.pushed, !.colored = st.colored]
    /\ UNCHANGED <<src, saved, call, diffVars, result, pc, stamps>>

\* the stack is empty: return Rectangle((xmin, ymin), (xmax-xmin+1, ymax-ymin+1))
FillReturn ==
    /\ pc = "loop"
    /\ stack = <<>>
    /\ result' = Rectangle(fill.xmin, fill.ymin,
                           fill.xmax - fill.xmin + 1, fill.ymax - fill.ymin + 1)
    /\ pc' = "done"
    /\ UNCHANGED <<dest, src, saved, call, diffVars, written, fillVars, stamps>>

NextFill == DrawFill \/ DrawFillMasked \/ FillStep \/ FillReturn

SpecFill == InitFill /\ [][NextFill]_vars

\* a fill is under way or over
Filling == pc \in {"loop", "done"} /\ call.op \in {"draw_fill", "draw_fill_masked"}

\* the picture the fill reads, as it was before the call
FillRead == IF call.op = "draw_fill" THEN saved.dest ELSE saved.src

\* the colour (index byte) the fill reads at pixel q before the call
ColourBefore(q) == Byte0(At(FillRead, q[1], q[2]))

Adjacent(p, q) ==
    \/ p[1] = q[1] /\ (p[2] = q[2] + 1 \/ p[2] = q[2] - 1)
    \/ p[2] = q[2] /\ (p[1] = q[1] + 1 \/ p[1] = q[1] - 1)

\* S and the pixels of same joined to its frontier by 4-connected paths in same
RECURSIVE Grow(_, _, _)
Grow(same, S, frontier) ==
    LET N == {q \in same \ S : \E p \in frontier : Adjacent(p, q)}
    IN  IF N = {} THEN S ELSE Grow(same, S \cup N, N)

\* the 4-connected region of the seed: the pixels of the seed's colour joined to it
Region ==
    LET col == ColourBefore(call.point)
        same == {q \in AllPixels(dest) : ColourBefore(q) = col}
    IN  Grow(same, {call.point}, {call.point})

\* the pixels whose element differs from the one before the call
Changed == {q \in AllPixels(dest) : At(dest, q[1], q[2]) # At(saved.dest, q[1], q[2])}

\* the pixels the call stored to
WrittenPixels == {PixelOf(dest, o) : o \in written}

\* C4: every pixel draw_fill changes, and every pixel it writes, had the
\* seed's colour before the call and is joined to the seed by a 4-connected
\* path of pixels that all had that colour; this holds all through the fill.
C4_FillContainment ==
    Filling => LET R == Region
               IN  /\ Changed \subseteq R
                   /\ WrittenPixels \subseteq R

\* C4 witness: a finished fill that coloured several rows and left alone a
\* pixel of the seed's colour that the walls cut off from the seed.
C4_Witness ==
    /\ Filling /\ pc = "done" /\ result # None
    /\ result.height >= 2
    /\ \E q \in AllPixels(dest) :
          /\ ColourBefore(q) = ColourBefore(call.point)
          /\ q \notin Region

\* C5: after draw_fill from a seed whose colour differs from the fill colour,
\* every pixel of the seed's 4-connected region holds the colour, also where
\* the seed or part of the region lies on the top or the bottom row.
C5_FillCompleteness ==
    (Filling /\ pc = "done" /\ call.op = "draw_fill" /\ result # None) =>
        LET R == Region
        IN  \A q \in R : At(dest, q[1], q[2]) = ToU32(call.color)

\* C6: when the seed's colour already is the fill colour, draw_fill returns
\* none and leaves the source and the destination as they were.
C6_FillSameColourIsNoOp ==
    (call.op \in {"draw_fill", "draw_fill_masked"}
        /\ ColourBefore(call.point) = call.color % Pow8) =>
            /\ pc = "done"
            /\ result = None
            /\ dest = saved.dest
            /\ src = saved.src

\* C6 witness: such a call was made with a colour above 255, on a seed that
\* has a neighbour of its own colour.
C6_Witness ==
    /\ call.op = "draw_fill" /\ pc = "done" /\ result = None
    /\ call.color > 255
    /\ ColourBefore(call.point) = call.color % Pow8
    /\ \E q \in Region : q # call.point

\* C7: draw_fill returns the bounding box of the pixels it coloured, and none
\* when it coloured no pixel, the fill of a destination that already holds the
\* colour included.
C7_FillReturnsColouredBox ==
    (Filling /\ pc = "done") =>
        IF written = {} THEN result = None ELSE result = BoundingBox(dest, written)

\* --------------------------------------------- draw_line, draw_rectangle

\* pic.paste(brush, x, y, True) inside a drawing loop. A brush of None is
\* read as a LongPicture all the same (the call is a C call, which checks no
\* argument): the behaviour is undefined.
paste_brush(st, brush, x, y) ==
    IF brush = None
    THEN [st EXCEPT !.undefined = TRUE]
    ELSE paste_rows(st, [pic |-> brush, x |-> x, y |-> y, mask |-> TRUE, color |-> 0,
                         how |-> "set_pixel"], 0)

Abs(n) == IF n < 0 THEN 0 - n ELSE n

\* the constants of a line: dx, sx, dy, sy, the end point, brush, colour,
\* step, and hw, hh, how far left of and above a sample the brush is put
LineOf(p0, p1, brush, color, step) ==
    [x1 |-> p1[1], y1 |-> p1[2],
     dx |-> Abs(p1[1] - p0[1]), sx |-> IF p0[1] < p1[1] THEN 1 ELSE -1,
     dy |-> 0 - Abs(p1[2] - p0[2]), sy |-> IF p0[2] < p1[2] THEN 1 ELSE -1,
     brush |-> brush, color |-> _rgb_to_32bit(color, 0, 0), step |-> step,
     hw |-> 0, hh |-> 0, how |-> "draw_line"]

\* the body of "if i % step == 0" at sample l, as each version of the loop
\* has it: [st, i] are the loop state and the counter i after it
\*   "draw_line"   pic.paste(brush, x-hw, y-hh, True), or set_pixel and i += 1
\*                 where the pixel is inside the picture
\*   "cblit"       draw_line on arrays: _cblit(pic, brush, x, y); i += 1 ends
\*                 every turn of the loop
\*   "cdraw_line"  cdraw_line: _cblit(pic, brush, x, y); i is never changed
line_sample(st, c, l) ==
    LET draws == l.i % c.step = 0
        xx == l.x - c.hw
        yy == l.y - c.hh
        at(s) == [s EXCEPT !.stamps = @ \cup {l.n}]
    IN  IF c.how = "draw_line"
        THEN IF draws /\ c.brush # None
             THEN [st |-> at(paste_brush(st, c.brush, xx, yy)), i |-> l.i]
             ELSE IF draws /\ InBounds(st.pic, xx, yy)
                  THEN [st |-> at(put_pixel(st, xx, yy, c.color)), i |-> l.i + 1]
                  ELSE [st |-> st, i |-> l.i]
        ELSE [st |-> IF draws
                     THEN at(paste_rows(st, [pic |-> c.brush, x |-> l.x, y |-> l.y,
                                             mask |-> TRUE, color |-> 0,
                                             how |-> "index"], 0))
                     ELSE st,
              i |-> IF c.how = "cblit" THEN l.i + 1 ELSE l.i]

\* the loop left as soon as x alone has reached the end
line_ends_on_x(c, l) == l.x = c.x1

\* the loop left as soon as y alone has reached the end
line_ends_on_y(c, l) == l.y = c.y1

\* "if x == x1 and y == y1: break"
line_ends(c, l) == l.x = c.x1 /\ l.y = c.y1

\* "while True": l = [x, y, err, i] are the locals the loop changes, and n
\* counts the samples; path keeps the (x, y) of every turn
RECURSIVE line_loop(_, _, _)
line_loop(st, c, l) ==
    LET s == [line_sample(st, c, l) EXCEPT !.st.path = Append(@, <<l.x, l.y>>)]
        e2 == 2 * l.err
    IN  IF line_ends(c, l)
        THEN s.st
        ELSE line_loop(s.st, c,
                [x |-> IF e2 >= c.dy THEN l.x + c.sx ELSE l.x,
                 y |-> IF e2 <= c.dx THEN l.y + c.sy ELSE l.y,
                 err |-> l.err + (IF e2 >= c.dy THEN c.dy ELSE 0)
                               + (IF e2 <= c.dx THEN c.dx ELSE 0),
                 i |-> s.i, n |-> l.n + 1])

\* the loop of a line of constants c from p0, from loop state st
line_from(st, c, p0) ==
    line_loop([st EXCEPT !.stamps = {}, !.path = <<>>], c,
              [x |-> p0[1], y |-> p0[2], err |-> c.dx + c.dy, i |-> 0, n |-> 0])

\* the drawing of draw_line(pic, p0, p1, brush, color, step), from loop state st
line_draw(st, p0, p1, brush, color, step) ==
    line_from(st, LineOf(p0, p1, brush, color, step), p0)

\* what draw_line returns
line_rect(pic, p0, p1, brush) ==
    LET c == LineOf(p0, p1, brush, 0, 1)
        bw == IF brush # None THEN brush.width ELSE 1
        bh == IF brush # None THEN brush.height ELSE 1
    IN  intersect(Rectangle(Min(p0[1], p1[1]), Min(p0[2], p1[2]), c.dx + bw, (0 - c.dy) + bh),
                  PicRect(pic))

\* draw_line(pic, p0, p1, brush, color, step): the loop state and the result
draw_line(pic, p0, p1, brush, color, step) ==
    [st |-> line_draw(LoopState(pic, 0, 0), p0, p1, brush, color, step),
     rect |-> line_rect(pic, p0, p1, brush)]

\* "for i in range(y, min(y+h, rows))": one flat line per row
RECURSIVE rectangle_rows(_, _, _, _, _, _, _)
rectangle_rows(st, x0, w, color, step, i, stop) ==
    IF i >= stop
    THEN st
    ELSE rectangle_rows(line_draw(st, <<x0, i>>, <<x0 + w, i>>, None, color, step),
                        x0, w, color, step, i + 1, stop)

\* draw_rectangle(pic, pos, size, brush, color, fill, step); fill is fill_ here
draw_rectangle(pic, pos, size, brush, color, fill_, step) ==
    LET x0 == pos[1]
        y0 == pos[2]
        w0 == size[1]
        h0 == size[2]
        x == Max(0, x0)
        y == Max(0, y0)
        w == Min(pic.width - x, w0 - (x - x0))
        h == Min(pic.height - y, h0 - (y - y0))
        st0 == LoopState(pic, 0, 0)
        a == <<x0, y0>>
        b == <<x0 + w0, y0>>
        c == <<x0 + w0, y0 + h0>>
        d == <<x0, y0 + h0>>
        bw == IF brush # None THEN brush.width ELSE 0
        bh == IF brush # None THEN brush.height ELSE 0
    IN  [st |-> IF fill_
                THEN rectangle_rows(st0, x0, w, color, step, y, Min(y + h, pic.height))
                ELSE line_draw(line_draw(line_draw(line_draw(st0,
                         a, b, brush, color, step),
                         b, c, brush, color, step),
                         c, d, brush, color, step),
                         d, a, brush, color, step),
         rect |-> intersect(PicRect(pic), Rectangle(x, y, w + bw, h + bh))]

\* ----------------------------------------------------------- draw_ellipse

\* The constants of an ellipse are c = [x0, y0, a, b, a2, b2, brush, bw, bh,
\* color, fill]; the locals a pass changes are e = [x, y, error, stopx, stopy].

\* the loop state after one turn of a pass with the locals e: the sample
\* (x, y) of the turn is kept in samples
ellipse_visited(st, e) == [st EXCEPT !.samples = @ \cup {<<e.x, e.y>>}]

\* one guarded "pic.paste(brush, xx, yy, True)"
ellipse_paste(st, c, xx, yy) ==
    IF xx + c.bw >= 0 /\ xx < st.pic.width /\ yy + c.bh >= 0 /\ yy < st.pic.height
    THEN paste_brush(st, c.brush, xx, yy)
    ELSE st

\* the four mirrored stamps of one sample
ellipse_stamps(st, c, x, y) ==
    ellipse_paste(ellipse_paste(ellipse_paste(ellipse_paste(st,
        c, c.x0 + x, c.y0 + y),
        c, c.x0 - x, c.y0 + y),
        c, c.x0 - x, c.y0 - y),
        c, c.x0 + x, c.y0 - y)

\* the two spans of one sample, from lx to rx on the rows topy and boty
ellipse_spans(st, c, lx, rx, y) ==
    LET topy == c.y0 - y
        boty == c.y0 + y
        s1 == IF topy >= 0
              THEN line_draw(st, <<lx, topy>>, <<rx, topy>>, None, c.color, 1)
              ELSE st
    IN  IF boty < st.pic.height
        THEN line_draw(s1, <<lx, boty>>, <<rx, boty>>, None, c.color, 1)
        ELSE s1

\* the first pass, "while stopy <= stopx": x grows. With b2 = 0 (2*b*b a
\* multiple of 2^32) and error > 0 a turn changes nothing but x: error, stopx
\* and stopy keep their values and so does the loop's condition, the loop has
\* no last turn. The model stops there and marks the state endless.
RECURSIVE ellipse_pass1(_, _, _)
ellipse_pass1(st, c, e) ==
    IF e.stopy <= e.stopx /\ c.b2 = 0 /\ e.error > 0
    THEN [st EXCEPT !.endless = TRUE]
    ELSE IF e.stopy <= e.stopx
    THEN LET w == st.pic.width
             s1 == IF c.fill
                   THEN ellipse_spans(st, c, Min(w - 1, Max(0, c.x0 - e.x)),
                                      Max(0, Min(w, c.x0 + e.x)), e.y)
                   ELSE ellipse_stamps(st, c, e.x, e.y)
             error == IntSub(e.error, IntMul(c.b2, e.x))
             turn == error <= 0
         IN  ellipse_pass1(ellipse_visited(s1, e), c,
                [x |-> e.x + 1,
                 y |-> IF turn THEN e.y - 1 ELSE e.y,
                 error |-> IF turn THEN IntAdd(error, IntMul(c.a2, e.y - 1)) ELSE error,
                 stopx |-> IF turn THEN IntSub(e.stopx, c.a2) ELSE e.stopx,
                 stopy |-> IntAdd(e.stopy, c.b2)])
    ELSE st

\* the second pass, "while stopy >= stopx": y grows. With a2 = 0 and
\* error >= 0 a turn changes nothing but y, and the loop has no last turn.
RECURSIVE ellipse_pass2(_, _, _)
ellipse_pass2(st, c, e) ==
    IF st.endless
    THEN st
    ELSE IF e.stopy >= e.stopx /\ c.a2 = 0 /\ e.error >= 0
    THEN [st EXCEPT !.endless = TRUE]
    ELSE IF e.stopy >= e.stopx
    THEN LET w == st.pic.width
             s1 == IF c.fill
                   THEN ellipse_spans(st, c, Max(0, c.x0 - e.x), Min(w, c.x0 + e.x), e.y)
                   ELSE ellipse_stamps(st, c, e.x, e.y)
             error == IntSub(e.error, IntMul(c.a2, e.y))
             turn == error < 0
         IN  ellipse_pass2(ellipse_visited(s1, e), c,
                [x |-> IF turn THEN e.x - 1 ELSE e.x,
                 y |-> e.y + 1,
                 error |-> IF turn THEN IntAdd(error, IntMul(c.b2, e.x - 1)) ELSE error,
                 stopx |-> IntAdd(e.stopx, c.a2),
                 stopy |-> IF turn THEN IntSub(e.stopy, c.b2) ELSE e.stopy])
    ELSE st

\* draw_ellipse(pic, center, size, brush, color, fill); fill is fill_ here. The
\* branches "if b == 0" and "if a == 0" follow the return for a <= 0 or b <= 0
\* and are never taken.
draw_ellipse(pic, center, size, brush, color, fill_) ==
    LET a == size[1]
        b == size[2]
        c == [x0 |-> center[1], y0 |-> center[2], a |-> a, b |-> b,
              a2 |-> IntMul(IntMul(2, a), a), b2 |-> IntMul(IntMul(2, b), b), brush |-> brush,
              bw |-> IF brush # None THEN brush.width ELSE 0,
              bh |-> IF brush # None THEN brush.height ELSE 0,
              color |-> color, fill |-> fill_]
        st0 == LoopState(pic, 0, 0)
        s1 == ellipse_pass1(st0, c, [x |-> 0, y |-> b, error |-> IntMul(IntMul(a, a), b),
                                     stopx |-> IntMul(c.a2, b), stopy |-> 0])
        s2 == ellipse_pass2(s1, c, [x |-> a, y |-> 0, error |-> IntMul(IntMul(b, b), a),
                                    stopx |-> 0, stopy |-> IntMul(c.b2, a)])
    IN  IF a <= 0 \/ b <= 0
        THEN [st |-> st0, rect |-> None]
        ELSE IF ~InBounds(pic, c.x0, c.y0)
             THEN [st |-> st0, rect |-> None]
             ELSE [st |-> s2,
                   rect |-> intersect(PicRect(pic),
                                Rectangle(c.x0 - a - 1, c.y0 - b - 1,
                                          2 * a + c.bw + 2, 2 * b + c.bh + 2))]

\* ------------------------------------- specification: drawing off canvas

\* coordinates run from Margin left of (above) the picture to Margin right of
\* (below) it
ClipPoints == ((0 - Margin) .. (dest.width - 1 + Margin))
                  \X ((0 - Margin) .. (dest.height - 1 + Margin))

\* sizes of a rectangle, negative and larger than the picture included
ClipSizes == (-1 .. (dest.width + 1)) \X (-1 .. (dest.height + 1))

\* radii at which 2*a*a does not fit a C int: 2 * 46341 * 46341 is above
\* 2^31, 2 * 65536 * 65536 is 2^33
WideRadii == {<<46341, 1>>, <<65536, 2>>}

\* radii of an ellipse
ClipRadii == ((0 .. MaxRadius) \X (0 .. MaxRadius)) \cup WideRadii

\* the flat colour drawn with (an index)
ClipColors == {7}

InitClip ==
    /\ \E s \in 0 .. 1 : dest = PatternPicture(ClipW, ClipH, PicElems, s)
    /\ src \in {None, PatternPicture(BrushW, BrushH, BrushElems, 0)}
    /\ saved = [dest |-> dest, src |-> src]
    /\ call = [op |-> "none"]
    /\ diffs = <<>>
    /\ applied = <<>>
    /\ result = None
    /\ pc = "start"
    /\ written = {}
    /\ stack = <<>>
    /\ fill = None
    /\ stamps = {}

\* the end of a drawing call that made r = [st, rect]: where the behaviour was
\* undefined the call either stops the program or goes on to its return; a
\* call whose loop has no last turn stays in the loop ("looping")
Drawn(c, r) ==
    /\ call' = c
    /\ dest' = r.st.pic
    /\ written' = r.st.written
    /\ \E out \in (IF r.st.undefined THEN {"crashed"} ELSE {})
                      \cup (IF r.st.endless THEN {"looping"} ELSE {"done"}) :
          /\ pc' = out
          /\ result' = IF out = "done" THEN r.rect ELSE None
    /\ stamps' = r.st.stamps
    /\ UNCHANGED <<src, saved, diffVars, fillVars>>

\* draw_line(pic, p0, p1, brush, color, step)
DrawLine ==
    /\ pc = "start"
    /\ \E p0 \in ClipPoints, p1 \in ClipPoints, color \in ClipColors, step \in 1 .. MaxStep :
          Drawn([op |-> "draw_line", p0 |-> p0, p1 |-> p1, color |-> color, step |-> step],
                draw_line(dest, p0, p1, src, color, step))

\* draw_rectangle(pic, pos, size, brush, color, fill, step)
DrawRectangle ==
    /\ pc = "start"
    /\ \E pos \in ClipPoints, size \in ClipSizes, color \in ClipColors,
          fill_ \in BOOLEAN, step \in 1 .. MaxStep :
          Drawn([op |-> "draw_rectangle", pos |-> pos, size |-> size, color |-> color,
                 fill |-> fill_, step |-> step],
                draw_rectangle(dest, pos, size, src, color, fill_, step))

\* draw_ellipse(pic, center, size, brush, color, fill)
DrawEllipse ==
    /\ pc = "start"
    /\ \E center \in ClipPoints, size \in ClipRadii, color \in ClipColors,
          fill_ \in BOOLEAN :
          Drawn([op |-> "draw_ellipse", center |-> center, size |-> size,
                 color |-> color, fill |-> fill_],
                draw_ellipse(dest, center, size, src, color, fill_))

\* what "pic[startx, starty] & 0xFF" comes to: outside the picture get_pixel
\* raises ValueError, which a build that cannot pass it on turns into 0
start_col_read(pic, point) ==
    IF InBounds(pic, point[1], point[2])
    THEN {get_pixel(pic, point[1], point[2])}
    ELSE {ValueError, 0}

\* draw_fill(pic, point, color) up to its loop, the seed anywhere
DrawFillAnywhere ==
    /\ pc = "start"
    /\ src = None
    /\ \E point \in ClipPoints, color \in FillColors :
          \E start_col \in start_col_read(dest, point) :
              FillEnter("draw_fill", FALSE, point, color, start_col,
                        dest.width, dest.height)

NextClip ==
    DrawLine \/ DrawRectangle \/ DrawEllipse \/ DrawFillAnywhere \/ FillStep
        \/ FillReturn \/ Paste

SpecClip == InitClip /\ [][NextClip]_vars

\* the coordinates of the call lie partly or wholly outside the picture
OffCanvas ==
    LET out(p) == ~InBounds(dest, p[1], p[2])
    IN  CASE call.op = "draw_line" -> out(call.p0) \/ out(call.p1)
          [] call.op = "draw_rectangle" ->
                \/ out(call.pos)
                \/ out(<<call.pos[1] + call.size[1], call.pos[2] + call.size[2]>>)
          [] call.op = "draw_ellipse" ->
                \/ out(<<call.center[1] - call.size[1], call.center[2] - call.size[2]>>)
                \/ out(<<call.center[1] + call.size[1], call.center[2] + call.size[2]>>)
          [] call.op = "draw_fill" -> out(call.point)
          [] call.op = "paste" ->
                \/ out(<<call.x, call.y>>)
                \/ out(<<call.x + src.width - 1, call.y + src.height - 1>>)
          [] OTHER -> FALSE

\* C10: a draw_line, draw_rectangle, draw_ellipse, draw_fill or paste call
\* whose coordinates lie partly or wholly outside the picture (a fill seeded
\* outside it included) raises no error, does not stop the program, and stores
\* only to elements of the picture.
C10_OffCanvasCallsClip ==
    OffCanvas =>
        /\ pc \notin {"raised", "crashed"}
        /\ written \subseteq DOMAIN dest.data

\* ----------------------------------------- clear, set, get and the flips

\* the stores "self.data[y * w + x] = value" for x in xs and y in ys. The data
\* is indexed without a bounds check: a store at an offset inside the array
\* lands there whatever (x, y) was, one outside it is undefined behaviour.
clear_loop(self, xs, ys, value) ==
    LET offsets == {y * self.width + x : x \in xs, y \in ys}
    IN  [LoopState(self, 0, 0) EXCEPT
            !.pic.data = [i \in DOMAIN @ |-> IF i \in offsets THEN value ELSE @[i]],
            !.written = offsets,
            !.undefined = ~(offsets \subseteq DOMAIN self.data)]

\* LongPicture.clear(box, value): the box is clamped to the picture
clear(self, box, value) ==
    LET x0 == Max(0, box[1])
        x1 == Min(self.width, box[3])
        y0 == Max(0, box[2])
        y1 == Min(self.height, box[4])
    IN  clear_loop(self, x0 .. (x1 - 1), y0 .. (y1 - 1), value)

\* Picture.clear(box, value), of the picture of unsigned char elements: the
\* box is taken as it is, and the value is cut to a byte by the store
clear_indexed(self, box, value) ==
    clear_loop(self, box[1] .. (box[3] - 1), box[2] .. (box[4] - 1), U32(Byte0(value), 0))

\* the get_pixel of the pictures that return the whole element:
\* "return self.data[offset]"
get_pixel_data(self, x, y) ==
    IF InBounds(self, x, y)
    THEN self.data[_get_offset(self, x, y)]
    ELSE ValueError

\* what a call of get_pixel(x, y) comes to, v being the element it returns
\* inside the picture: outside it the function raises ValueError, and being
\* declared "cpdef unsigned int" with no except clause, a build either passes
\* the error on to the caller or reports it and returns 0
get_pixel_outcomes(self, x, y, v) ==
    IF ~InBounds(self, x, y)
    THEN {[pc |-> "raised", value |-> None], [pc |-> "done", value |-> Zero]}
    ELSE {[pc |-> "done", value |-> v]}

\* "flipped[x, y] = self.get_pixel(...)" for every pixel of a new picture
flip_vertical(self) ==
    [LongPicture(self.width, self.height) EXCEPT
        !.data = [i \in DOMAIN @ |->
                    LET x == i % self.width
                        y == i \div self.width
                        y2 == self.height - y - 1
                    IN  ToU32(get_pixel(self, x, y2))]]

flip_horizontal(self) ==
    [LongPicture(self.width, self.height) EXCEPT
        !.data = [i \in DOMAIN @ |->
                    LET x == i % self.width
                        y == i \div self.width
                    IN  ToU32(get_pixel(self, self.width - x - 1, y))]]

\* ------------------------------------ specification: the picture buffers

\* a picture of unsigned char elements (Picture), as against one of unsigned
\* int elements (LongPicture)
IsIndexed(p) == \A i \in DOMAIN p.data : p.data[i][2] = 0

\* the element an unsigned int value becomes when stored into picture p
Stored(p, value) == IF IsIndexed(p) THEN U32(Byte0(value), 0) ELSE value

\* values set and cleared with: an index, an opaque index 0, the largest
BufValues == {U32(7, 0), U32(0, 255 * Pow16), U32(255, Pow24 - 1)}

\* boxes (x0, y0, x1, y1), reaching outside the picture on every side
ClipBoxes ==
    ((0 - Margin) .. (dest.width + Margin)) \X ((0 - Margin) .. (dest.height + Margin))
        \X ((0 - Margin) .. (dest.width + Margin)) \X ((0 - Margin) .. (dest.height + Margin))

InitBuffer ==
    /\ \E s \in 0 .. 1 :
          \/ dest = PatternPicture(BufW, BufH, PicElems, s)
          \/ dest = PatternPicture(BufW, BufH, ByteElems, s)
    /\ src = None
    /\ saved = [dest |-> dest, src |-> src]
    /\ call = [op |-> "none"]
    /\ diffs = <<>>
    /\ applied = <<>>
    /\ result = None
    /\ pc = "start"
    /\ written = {}
    /\ stack = <<>>
    /\ fill = None
    /\ stamps = {}

\* LongPicture.clear(box, value)
Clear ==
    /\ pc = "start"
    /\ ~IsIndexed(dest)
    /\ \E box \in ClipBoxes, value \in BufValues :
          Drawn([op |-> "clear", box |-> box, value |-> value],
                [st |-> clear(dest, box, value), rect |-> None])

\* Picture.clear(box, value)
ClearIndexed ==
    /\ pc = "start"
    /\ IsIndexed(dest)
    /\ \E box \in ClipBoxes, value \in BufValues :
          Drawn([op |-> "clear_indexed", box |-> box, value |-> Stored(dest, value)],
                [st |-> clear_indexed(dest, box, value), rect |-> None])

\* pic[x, y] = value, that is set_pixel(x, y, value)
SetPixel ==
    /\ pc = "start"
    /\ \E point \in ClipPoints, value \in BufValues :
          LET st == put_pixel(LoopState(dest, 0, 0), point[1], point[2],
                              Stored(dest, value))
          IN  /\ dest' = st.pic
              /\ written' = st.written
              /\ call' = [op |-> "set_pixel", point |-> point,
                          value |-> Stored(dest, value)]
    /\ pc' = "set"
    /\ UNCHANGED <<src, saved, diffVars, fillVars, result, stamps>>

\* the end of a get_pixel call that computed v
Got(op, point, v) ==
    /\ call' = [op |-> op, point |-> point, after |-> call]
    /\ \E out \in get_pixel_outcomes(dest, point[1], point[2], v) :
          /\ pc' = out.pc
          /\ result' = out.value
    /\ UNCHANGED <<dest, src, saved, diffVars, fillVars, written, stamps>>

\* get_pixel(x, y) of the newer LongPicture: the index byte
GetPixel ==
    /\ pc \in {"start", "set"}
    /\ ~IsIndexed(dest)
    /\ \E point \in ClipPoints :
          Got("get_pixel", point, U32(get_pixel(dest, point[1], point[2]), 0))

\* get_pixel(x, y) of Picture and of the older LongPicture: the element
GetPixelData ==
    /\ pc \in {"start", "set"}
    /\ \E point \in ClipPoints :
          Got("get_pixel_data", point, get_pixel_data(dest, point[1], point[2]))

\* flip_vertical(), flip_horizontal(), of the picture or of the flipped
\* picture a first call returned
Flip ==
    /\ pc \in {"start", "flipped"}
    /\ \E op \in {"flip_vertical", "flip_horizontal"} :
          LET self == IF pc = "start" THEN dest ELSE result
          IN  /\ pc = "flipped" => call.op = op
              /\ call' = [op |-> op, times |-> IF pc = "start" THEN 1 ELSE 2]
              /\ result' = IF op = "flip_vertical" THEN flip_vertical(self)
                           ELSE flip_horizontal(self)
    /\ pc' = IF pc = "start" THEN "flipped" ELSE "done"
    /\ UNCHANGED <<dest, src, saved, diffVars, fillVars, written, stamps>>

NextBuffer == Clear \/ ClearIndexed \/ SetPixel \/ GetPixel \/ GetPixelData \/ Flip

SpecBuffer == InitBuffer /\ [][NextBuffer]_vars

\* the pixels of box (x0, y0, x1, y1) that lie in picture p
BoxPixels(p, box) ==
    {q \in AllPixels(p) : box[1] <= q[1] /\ q[1] < box[3] /\ box[2] <= q[2] /\ q[2] < box[4]}

\* C11: clear(box, value), of the packed and of the indexed picture, with any
\* box, those reaching outside the picture included, does not fail, sets every
\* pixel of the box that lies in the picture to value and leaves every other
\* pixel as it was.
C11_ClearSetsClampedBox ==
    call.op \in {"clear", "clear_indexed"} =>
        /\ pc = "done"
        /\ \A q \in AllPixels(dest) :
              At(dest, q[1], q[2]) = IF q \in BoxPixels(dest, call.box)
                                     THEN call.value
                                     ELSE At(saved.dest, q[1], q[2])

\* the point of the call lies outside the picture
PointOutside == ~InBounds(dest, call.point[1], call.point[2])

C13_GetReturnsWhatSetStored ==
    (/\ call.op \in {"get_pixel", "get_pixel_data"}
     /\ call.after.op = "set_pixel"
     /\ call.after.point = call.point
     /\ ~PointOutside) =>
        pc = "done" /\ result = call.after.value

\* C14: flip_horizontal returns a new picture of the same size whose element
\* at (x, y) is the picture's element at (width-1-x, y), flip_vertical one
\* whose element at (x, y) is the picture's at (x, height-1-y); the picture
\* itself is unchanged, and the same flip made twice gives the picture back.
C14_FlipsMirrorElements ==
    call.op \in {"flip_horizontal", "flip_vertical"} =>
        /\ dest = saved.dest
        /\ result.width = dest.width /\ result.height = dest.height
        /\ IF call.times = 2
           THEN result = dest
           ELSE \A q \in AllPixels(dest) :
                   At(result, q[1], q[2]) =
                       IF call.op = "flip_horizontal"
                       THEN At(dest, dest.width - 1 - q[1], q[2])
                       ELSE At(dest, q[1], dest.height - 1 - q[2])

\* ------------------------------------------- the other versions of a line

\* the older draw_line(pic, p0, p1, brush, color, step), which puts the brush
\* with its middle on the sample: hw = bw // 2, hh = bh // 2. The oldest of
\* them stores the colour as it is given (converts is FALSE), the next one
\* as _rgb_to_32bit((color, 0, 0)).
draw_line_centered(pic, p0, p1, brush, color, step, converts) ==
    LET bw == IF brush # None THEN brush.width ELSE 1
        bh == IF brush # None THEN brush.height ELSE 1
        hw == bw \div 2
        hh == bh \div 2
        c == [LineOf(p0, p1, brush, color, step) EXCEPT
                !.hw = hw, !.hh = hh,
                !.color = IF converts THEN @ ELSE ToU32(color)]
    IN  [st |-> line_from(LoopState(pic, 0, 0), c, p0),
         rect |-> intersect(Rectangle(Min(p0[1], p1[1]) - hw, Min(p0[2], p1[2]) - hh,
                                      c.dx + bw, (0 - c.dy) + bh),
                            PicRect(pic))]

\* draw_line(pic, brush, p0, p1, step) on arrays: the loop is that of "cblit"
\* or, for cdraw_line, that of "cdraw_line"; the Rectangle is what draw_line
\* returns (cdraw_line computes the same four numbers and returns nothing)
draw_line_arrays(pic, brush, p0, p1, step, how) ==
    LET c == [LineOf(p0, p1, brush, 0, step) EXCEPT !.how = how]
        x00 == Max(0, Min(p0[1], p1[1]))
        y00 == Max(0, Min(p0[2], p1[2]))
        x11 == Min(pic.width, Max(p0[1], p1[1]) + brush.width)
        y11 == Min(pic.height, Max(p0[2], p1[2]) + brush.height)
    IN  [st |-> line_from(LoopState(pic, 0, 0), c, p0),
         rect |-> IF how = "cblit"
                  THEN Rectangle(x00, y00, x11 - x00, y11 - y00)
                  ELSE None]

\* --------------------------------------------------- specification: lines

\* draw_line of the two older versions
DrawLineCentered ==
    /\ pc = "start"
    /\ \E p0 \in ClipPoints, p1 \in ClipPoints, color \in ClipColors, step \in 1 .. MaxStep,
          converts \in BOOLEAN :
          Drawn([op |-> IF converts THEN "draw_line_centered" ELSE "draw_line_older",
                 p0 |-> p0, p1 |-> p1, color |-> color, step |-> step],
                draw_line_centered(dest, p0, p1, src, color, step, converts))

\* draw_line(pic, brush, p0, p1, step) on arrays
DrawLineArrays ==
    /\ pc = "start"
    /\ src # None
    /\ \E p0 \in ClipPoints, p1 \in ClipPoints, step \in 1 .. MaxStep :
          Drawn([op |-> "draw_line_arrays", p0 |-> p0, p1 |-> p1, step |-> step],
                draw_line_arrays(dest, src, p0, p1, step, "cblit"))

\* cdraw_line(pic, brush, p0, p1, step)
CDrawLine ==
    /\ pc = "start"
    /\ src # None
    /\ \E p0 \in ClipPoints, p1 \in ClipPoints, step \in 1 .. MaxStep :
          Drawn([op |-> "cdraw_line", p0 |-> p0, p1 |-> p1, step |-> step],
                draw_line_arrays(dest, src, p0, p1, step, "cdraw_line"))

NextLine == DrawLine \/ DrawLineCentered \/ DrawLineArrays \/ CDrawLine

SpecLine == InitClip /\ [][NextLine]_vars

\* a line was drawn by one of the versions
LineOps == {"draw_line", "draw_line_centered", "draw_line_older", "draw_line_arrays",
            "cdraw_line"}

\* the last sample of the line of the call: the samples are 0 .. LastSample
LastSample ==
    Max(Abs(call.p1[1] - call.p0[1]), Abs(call.p1[2] - call.p0[2]))

\* both ends of the line of the call are inside the picture
LineInside ==
    InBounds(dest, call.p0[1], call.p0[2]) /\ InBounds(dest, call.p1[1], call.p1[2])

\* C15: draw_line with step k stamps the brush, or sets the pixel, at the
\* samples of the line whose position along it is a multiple of k and at no
\* other sample (a flat colour is looked at on lines inside the picture, where
\* every pixel set is a pixel stored).
C15_StepStampsEveryKth ==
    (call.op \in LineOps /\ (src # None \/ LineInside)) =>
        stamps = {n \in 0 .. LastSample : n % call.step = 0}

\* the offset of point p in dest
OffsetOf(p) == _get_offset(dest, p[1], p[2])

\* the offsets of dest whose element the call changed
ChangedOffsets == {o \in DOMAIN dest.data : dest.data[o] # saved.dest.data[o]}

\* C16: draw_line with no brush and step 1 between two points inside the
\* picture stores the colour to exactly max(|x1-x0|, |y1-y0|) + 1 pixels, p0
\* and p1 among them, get at each of them then returns the colour index, and
\* the call returns Rectangle((min(x0,x1), min(y0,y1)), (|x1-x0|+1, |y1-y0|+1)).
C16_FlatLineInsidePicture ==
    (/\ call.op \in {"draw_line", "draw_line_centered", "draw_line_older"}
     /\ src = None /\ call.step = 1 /\ LineInside) =>
        /\ pc = "done"
        /\ Cardinality(written) = LastSample + 1
        /\ {OffsetOf(call.p0), OffsetOf(call.p1)} \subseteq written
        /\ ChangedOffsets \subseteq written
        /\ \A o \in written :
              LET q == PixelOf(dest, o)
              IN  IF call.op = "draw_line_older"
                  THEN get_pixel_data(dest, q[1], q[2]) = ToU32(call.color)
                  ELSE get_pixel(dest, q[1], q[2]) = call.color
        /\ result = Rectangle(Min(call.p0[1], call.p1[1]), Min(call.p0[2], call.p1[2]),
                              Abs(call.p1[1] - call.p0[1]) + 1,
                              Abs(call.p1[2] - call.p0[2]) + 1)

\* C16 witness: the diagonal from (0,0) to the opposite corner, drawn flat
\* with step 1, every pixel of it stored.
C16_Witness ==
    /\ call.op = "draw_line" /\ src = None /\ call.step = 1 /\ pc = "done"
    /\ call.p0 = <<0, 0>> /\ call.p1 = <<dest.width - 1, dest.height - 1>>
    /\ written = {OffsetOf(<<k, k>>) : k \in 0 .. (dest.width - 1)}
    /\ dest # saved.dest

\* the pixels of picture p that lie in rectangle r
PixelsIn(p, r) ==
    {q \in AllPixels(p) : Left(r) <= q[1] /\ q[1] < Right(r) /\ Top(r) <= q[2] /\ q[2] < Bottom(r)}

\* rectangle r lies inside the bounds of picture p
RectInside(r, p) ==
    /\ 0 <= Left(r) /\ Left(r) <= Right(r) /\ Right(r) <= p.width
    /\ 0 <= Top(r) /\ Top(r) <= Bottom(r) /\ Bottom(r) <= p.height

\* the pixels of dest whose element the call changed
ChangedPixels == {PixelOf(dest, o) : o \in ChangedOffsets}

\* the bounding box of the line of the call, grown by the brush as the
\* version of the call puts it
LineBox ==
    LET bw == IF src # None THEN src.width ELSE 1
        bh == IF src # None THEN src.height ELSE 1
        centered == call.op \in {"draw_line_centered", "draw_line_older"}
    IN  Rectangle(Min(call.p0[1], call.p1[1]) - (IF centered THEN bw \div 2 ELSE 0),
                  Min(call.p0[2], call.p1[2]) - (IF centered THEN bh \div 2 ELSE 0),
                  Abs(call.p1[1] - call.p0[1]) + bw,
                  Abs(call.p1[2] - call.p0[2]) + bh)

\* C17: after any draw_line call, with the ends inside or outside the picture,
\* with or without a brush, every pixel whose value changed lies in the
\* rectangle returned, that rectangle lies inside the picture, and the result
\* is none when the bounding box of the line grown by the brush does not
\* overlap the picture.
C17_LineResultCoversChanges ==
    (call.op \in LineOps \ {"cdraw_line"}) =>
        /\ pc = "done"
        /\ IF PixelsIn(dest, LineBox) = {}
           THEN result = None /\ ChangedPixels = {}
           ELSE /\ result # None
                /\ RectInside(result, dest)
                /\ ChangedPixels \subseteq PixelsIn(dest, result)

\* ----------------------------------------- the other versions of a rectangle

\* the drawing of the older draw_line, which puts the brush with its middle on
\* the sample, from loop state st
line_draw_centered(st, p0, p1, brush, color, step) ==
    LET bw == IF brush # None THEN brush.width ELSE 1
        bh == IF brush # None THEN brush.height ELSE 1
    IN  line_from(st, [LineOf(p0, p1, brush, color, step) EXCEPT
                          !.hw = bw \div 2, !.hh = bh \div 2], p0)

\* "for i in range(y, min(y+h, rows))" of the older draw_rectangle
RECURSIVE rectangle_rows_centered(_, _, _, _, _, _, _)
rectangle_rows_centered(st, x0, w, color, step, i, stop) ==
    IF i >= stop
    THEN st
    ELSE rectangle_rows_centered(
             line_draw_centered(st, <<x0, i>>, <<x0 + w, i>>, None, color, step),
             x0, w, color, step, i + 1, stop)

\* the older draw_rectangle(pic, pos, size, brush, color, fill, step): the
\* lines are those of the older draw_line, and the Rectangle returned starts
\* hw left of and hh above the clamped corner, hw and hh being 1 with no brush
draw_rectangle_centered(pic, pos, size, brush, color, fill_, step) ==
    LET x0 == pos[1]
        y0 == pos[2]
        w0 == size[1]
        h0 == size[2]
        x == Max(0, x0)
        y == Max(0, y0)
        w == Min(pic.width - x, w0 - (x - x0))
        h == Min(pic.height - y, h0 - (y - y0))
        st0 == LoopState(pic, 0, 0)
        a == <<x0, y0>>
        b == <<x0 + w0, y0>>
        c == <<x0 + w0, y0 + h0>>
        d == <<x0, y0 + h0>>
        bw == IF brush # None THEN brush.width ELSE 0
        bh == IF brush # None THEN brush.height ELSE 0
        hw == IF brush # None THEN bw \div 2 ELSE 1
        hh == IF brush # None THEN bh \div 2 ELSE 1
    IN  [st |-> IF fill_
                THEN rectangle_rows_centered(st0, x0, w, color, step, y,
                                             Min(y + h, pic.height))
                ELSE line_draw_centered(line_draw_centered(line_draw_centered(
                     line_draw_centered(st0,
                         a, b, brush, color, step),
                         b, c, brush, color, step),
                         c, d, brush, color, step),
                         d, a, brush, color, step),
         rect |-> intersect(PicRect(pic), Rectangle(x - hw, y - hh, w + bw, h + bh))]

\* the indexes a slice start:stop takes of an axis of length n: a negative
\* bound counts from the end, and both are then cut to 0 .. n
slice_indexes(start, stop, n) ==
    LET cut(k) == IF k < 0 THEN Max(0, k + n) ELSE Min(k, n)
    IN  cut(start) .. (cut(stop) - 1)

\* "pic[x:x+w, y:y+h] = color"
slice_store(st, x, y, w, h, color) ==
    LET xs == slice_indexes(x, x + w, st.pic.width)
        ys == slice_indexes(y, y + h, st.pic.height)
        offsets == {_get_offset(st.pic, q[1], q[2]) : q \in xs \X ys}
    IN  [st EXCEPT !.pic.data = [o \in DOMAIN @ |-> IF o \in offsets
                                                     THEN ToU32(color)
                                                     ELSE @[o]],
                   !.written = @ \cup offsets]

\* one cdraw_line(pic, brush, p0, p1) of draw_rectangle, from loop state st
cdraw_line(st, brush, p0, p1) ==
    line_from(st, [LineOf(p0, p1, brush, 0, 1) EXCEPT !.how = "cdraw_line"], p0)

\* draw_rectangle(pic, brush, pos, size, color, fill) on arrays
draw_rectangle_arrays(pic, brush, pos, size, color, fill_) ==
    LET x0 == pos[1]
        y0 == pos[2]
        w0 == size[1]
        h0 == size[2]
        x == Max(0, x0)
        y == Max(0, y0)
        w == Min(pic.width - x, w0 - (x - x0))
        h == Min(pic.height - y, h0 - (y - y0))
        st0 == LoopState(pic, 0, 0)
        a == <<x0, y0>>
        b == <<x0 + w0, y0>>
        c == <<x0 + w0, y0 + h0>>
        d == <<x0, y0 + h0>>
    IN  [st |-> IF fill_
                THEN slice_store(st0, x, y, w, h, color)
                ELSE cdraw_line(cdraw_line(cdraw_line(cdraw_line(st0,
                         brush, a, b), brush, b, c), brush, c, d), brush, d, a),
         rect |-> intersect(PicRect(pic),
                            Rectangle(x, y, Min(pic.width, w + brush.width),
                                      Min(pic.height, h + brush.height)))]

\* ---------------------------------------------- specification: rectangles

\* the older draw_rectangle(pic, pos, size, brush, color, fill, step)
DrawRectangleCentered ==
    /\ pc = "start"
    /\ \E pos \in ClipPoints, size \in ClipSizes, color \in ClipColors,
          fill_ \in BOOLEAN, step \in 1 .. MaxStep :
          Drawn([op |-> "draw_rectangle_centered", pos |-> pos, size |-> size,
                 color |-> color, fill |-> fill_, step |-> step],
                draw_rectangle_centered(dest, pos, size, src, color, fill_, step))

\* draw_rectangle(pic, brush, pos, size, color, fill) on arrays
DrawRectangleArrays ==
    /\ pc = "start"
    /\ src # None
    /\ \E pos \in ClipPoints, size \in ClipSizes, color \in ClipColors, fill_ \in BOOLEAN :
          Drawn([op |-> "draw_rectangle_arrays", pos |-> pos, size |-> size,
                 color |-> color, fill |-> fill_, step |-> 1],
                draw_rectangle_arrays(dest, src, pos, size, color, fill_))

NextRect == DrawRectangle \/ DrawRectangleCentered \/ DrawRectangleArrays

SpecRect == InitClip /\ [][NextRect]_vars

\* a rectangle was drawn by one of the versions
RectOps == {"draw_rectangle", "draw_rectangle_centered", "draw_rectangle_arrays"}

\* the pixels of the rectangle asked for that are pixels of the picture
ClampedPixels ==
    {q \in AllPixels(dest) :
        /\ Max(0, call.pos[1]) <= q[1]
        /\ q[1] < Min(dest.width, call.pos[1] + call.size[1])
        /\ Max(0, call.pos[2]) <= q[2]
        /\ q[2] < Min(dest.height, call.pos[2] + call.size[2])}

\* C18: draw_rectangle with fill paints exactly the pixels (px, py) with
\* max(0, x0) <= px < min(width, x0 + w0) and max(0, y0) <= py <
\* min(height, y0 + h0), and no other pixel, for every position (negative x0
\* or y0 included) and size (looked at with step 1).
C18_FillPaintsClampedRectangle ==
    (call.op \in RectOps /\ call.fill /\ call.step = 1) =>
        /\ pc = "done"
        /\ ChangedPixels = ClampedPixels
        /\ written = {OffsetOf(q) : q \in ClampedPixels}

\* C19: after any draw_rectangle call, filled or outline, with or without a
\* brush, every pixel whose value changed lies in the rectangle returned, and
\* that rectangle lies inside the picture.
C19_RectangleResultCoversChanges ==
    (call.op \in RectOps) =>
        /\ pc = "done"
        /\ IF result = None
           THEN ChangedPixels = {}
           ELSE /\ RectInside(result, dest)
                /\ ChangedPixels \subseteq PixelsIn(dest, result)

\* ------------------------------------------ the other version of an ellipse

\* "pic[lx:rx, row] = color": the columns are those of the slice; the row is
\* an index used without a bounds check, on an array that holds the element
\* of (x, y) at x * h + y, so a row outside the picture reaches another
\* element of the array or none of it
row_store(st, lx, rx, row, color) ==
    LET w == st.pic.width
        h == st.pic.height
        at(x) == x * h + row
        offset(x) == IF 0 <= at(x) /\ at(x) < w * h
                     THEN _get_offset(st.pic, at(x) \div h, at(x) % h)
                     ELSE at(x)
        offsets == {offset(x) : x \in slice_indexes(lx, rx, w)}
    IN  [st EXCEPT !.pic.data = [o \in DOMAIN @ |-> IF o \in offsets
                                                     THEN ToU32(color)
                                                     ELSE @[o]],
                   !.written = @ \cup offsets,
                   !.undefined = @ \/ (offsets # {} /\ ~(0 <= row /\ row < h))]

\* one sample of either pass of draw_ellipse on arrays: two spans when
\* filling, else four stamps of the brush with its middle on the sample
ellipse_sample_arrays(st, c, x, y) ==
    LET w == st.pic.width
        topy == c.y0 - y
        boty == c.y0 + y
        lx == Min(w - 1, Max(0, c.x0 - x))
        rx == Max(0, Min(w, c.x0 + x + 1))
        s1 == IF topy >= 0 THEN row_store(st, lx, rx, topy, c.color) ELSE st
        stamp(s, xx, yy) == paste_rows(s, [pic |-> c.brush, x |-> xx, y |-> yy,
                                           mask |-> TRUE, color |-> 0,
                                           how |-> "index"], 0)
    IN  IF c.fill
        THEN IF boty < st.pic.height THEN row_store(s1, lx, rx, boty, c.color) ELSE s1
        ELSE stamp(stamp(stamp(stamp(st,
                 c.x0 + x - c.hw, c.y0 + y - c.hh),
                 c.x0 - x - c.hw, c.y0 + y - c.hh),
                 c.x0 - x - c.hw, c.y0 - y - c.hh),
                 c.x0 + x - c.hw, c.y0 - y - c.hh)

\* the first pass, "while stopy <= stopx"
RECURSIVE ellipse_pass1_arrays(_, _, _)
ellipse_pass1_arrays(st, c, e) ==
    IF e.stopy <= e.stopx /\ c.b2 = 0 /\ e.error > 0
    THEN [st EXCEPT !.endless = TRUE]
    ELSE IF e.stopy <= e.stopx
    THEN LET error == IntSub(e.error, IntMul(c.b2, e.x))
             turn == error <= 0
         IN  ellipse_pass1_arrays(ellipse_visited(ellipse_sample_arrays(st, c, e.x, e.y), e), c,
                [x |-> e.x + 1,
                 y |-> IF turn THEN e.y - 1 ELSE e.y,
                 error |-> IF turn THEN IntAdd(error, IntMul(c.a2, e.y - 1)) ELSE error,
                 stopx |-> IF turn THEN IntSub(e.stopx, c.a2) ELSE e.stopx,
                 stopy |-> IntAdd(e.stopy, c.b2)])
    ELSE st

\* the second pass, "while stopy >= stopx"
RECURSIVE ellipse_pass2_arrays(_, _, _)
ellipse_pass2_arrays(st, c, e) ==
    IF st.endless
    THEN st
    ELSE IF e.stopy >= e.stopx /\ c.a2 = 0 /\ e.error >= 0
    THEN [st EXCEPT !.endless = TRUE]
    ELSE IF e.stopy >= e.stopx
    THEN LET error == IntSub(e.error, IntMul(c.a2, e.y))
             turn == error < 0
         IN  ellipse_pass2_arrays(ellipse_visited(ellipse_sample_arrays(st, c, e.x, e.y), e), c,
                [x |-> IF turn THEN e.x - 1 ELSE e.x,
                 y |-> e.y + 1,
                 error |-> IF turn THEN IntAdd(error, IntMul(c.b2, e.x - 1)) ELSE error,
                 stopx |-> IntAdd(e.stopx, c.a2),
                 stopy |-> IF turn THEN IntSub(e.stopy, c.b2) ELSE e.stopy])
    ELSE st

\* draw_ellipse(pic, brush, center, size, color, fill) on arrays. As in the
\* version on pictures the branches "if b == 0" and "if a == 0" follow the
\* return for a <= 0 or b <= 0 and are never taken; the centre may lie
\* anywhere.
draw_ellipse_arrays(pic, brush, center, size, color, fill_) ==
    LET a == size[1]
        b == size[2]
        hw == brush.width \div 2
        hh == brush.height \div 2
        c == [x0 |-> center[1], y0 |-> center[2], a |-> a, b |-> b,
              a2 |-> IntMul(IntMul(2, a), a), b2 |-> IntMul(IntMul(2, b), b), brush |-> brush,
              hw |-> hw, hh |-> hh, color |-> color, fill |-> fill_]
        st0 == LoopState(pic, 0, 0)
        s1 == ellipse_pass1_arrays(st0, c, [x |-> 0, y |-> b, error |-> IntMul(IntMul(a, a), b),
                                            stopx |-> IntMul(c.a2, b), stopy |-> 0])
        s2 == ellipse_pass2_arrays(s1, c, [x |-> a, y |-> 0, error |-> IntMul(IntMul(b, b), a),
                                           stopx |-> 0, stopy |-> IntMul(c.b2, a)])
    IN  IF a <= 0 \/ b <= 0
        THEN [st |-> st0, rect |-> None]
        ELSE [st |-> s2,
              rect |-> intersect(PicRect(pic),
                           Rectangle(c.x0 - a - hw - 1, c.y0 - b - hh - 1,
                                     2 * a + 2 * hw + 2, 2 * b + 2 * hh + 2))]

\* ------------------------------------------------ specification: ellipses

\* draw_ellipse(pic, brush, center, size, color, fill) on arrays
DrawEllipseArrays ==
    /\ pc = "start"
    /\ src # None
    /\ \E center \in ClipPoints, size \in ClipRadii, color \in ClipColors,
          fill_ \in BOOLEAN :
          Drawn([op |-> "draw_ellipse_arrays", center |-> center, size |-> size,
                 color |-> color, fill |-> fill_],
                draw_ellipse_arrays(dest, src, center, size, color, fill_))

NextEllipse == DrawEllipse \/ DrawEllipseArrays

SpecEllipse == InitClip /\ [][NextEllipse]_vars

\* the call drew an ellipse with exactly one radius 0 and its centre inside
\* the picture
OneAxisDegenerate ==
    /\ call.op \in {"draw_ellipse", "draw_ellipse_arrays"}
    /\ InBounds(dest, call.center[1], call.center[2])
    /\ \/ call.size[1] = 0 /\ call.size[2] > 0
       \/ call.size[2] = 0 /\ call.size[1] > 0

\* the pixels of the picture from centre minus radius to centre plus radius
\* on the axis whose radius is not 0
AxisPixels ==
    {q \in AllPixels(dest) :
        /\ Abs(q[1] - call.center[1]) <= call.size[1]
        /\ Abs(q[2] - call.center[2]) <= call.size[2]}

\* C20: draw_ellipse with exactly one radius 0 and the centre inside the
\* picture draws the pixels from centre minus radius to centre plus radius
\* on the other axis, as a line or a filled rectangle, and returns a
\* rectangle, not none.
C20_DegenerateEllipseIsLine ==
    OneAxisDegenerate =>
        /\ pc = "done"
        /\ result # None
        /\ AxisPixels \subseteq {PixelOf(dest, o) : o \in written \cap DOMAIN dest.data}

\* the call drew an ellipse with both radii positive and its centre inside the
\* picture, filled or with a brush
EllipseInside ==
    /\ call.op \in {"draw_ellipse", "draw_ellipse_arrays"}
    /\ call.size[1] > 0 /\ call.size[2] > 0
    /\ InBounds(dest, call.center[1], call.center[2])
    /\ (call.fill \/ src # None)

\* the samples (x, y) the two passes of the call visited
EllipseSamples ==
    (IF call.op = "draw_ellipse"
     THEN draw_ellipse(saved.dest, call.center, call.size, src, call.color, call.fill)
     ELSE draw_ellipse_arrays(saved.dest, src, call.center, call.size, call.color,
                              call.fill)).st.samples

\* C21: after a draw_ellipse call with positive radii a, b and the centre
\* inside the picture, filled or outline, every pixel whose value changed lies
\* in the rectangle returned, that rectangle lies inside the picture, and
\* every sample (x, y) visited by either pass has 0 <= x <= a and 0 <= y <= b.
C21_EllipseResultCoversChanges ==
    EllipseInside =>
        /\ pc = "done"
        /\ result # None
        /\ RectInside(result, dest)
        /\ written \subseteq DOMAIN dest.data
        /\ ChangedOffsets \subseteq written
        /\ {PixelOf(dest, o) : o \in written} \subseteq PixelsIn(dest, result)
        /\ \A q \in EllipseSamples :
              /\ 0 <= q[1] /\ q[1] <= call.size[1]
              /\ 0 <= q[2] /\ q[2] <= call.size[2]

\* the same for the radii whose products fit a C int
NarrowEllipseResultCoversChanges ==
    (call.op \in {"draw_ellipse", "draw_ellipse_arrays"} /\ call.size \notin WideRadii)
        => C21_EllipseResultCoversChanges

\* an outline with a brush and a filled ellipse, neither a circle of radius 1,
\* changed pixels of the picture and left others as they were
C21_Witness ==
    /\ EllipseInside
    /\ pc = "done"
    /\ call.size = <<2, 1>>
    /\ ChangedPixels # {}
    /\ ChangedPixels # AllPixels(dest)
    /\ Cardinality(EllipseSamples) >= 3

\* -------------------------------------------------------------- Rectangle

\* Rectangle.unite
unite(self, other) ==
    IF other = None
    THEN self
    ELSE LET x == Min(Left(self), Left(other))
             y == Min(Top(self), Top(other))
         IN  Rectangle(x, y, Max(Right(self), Right(other)) - x,
                       Max(Bottom(self), Bottom(other)) - y)

\* Rectangle.__contains__
contains(self, point) ==
    /\ Left(self) <= point[1] /\ point[1] < Right(self)
    /\ Top(self) <= point[2] /\ point[2] < Bottom(self)

\* Rectangle.expanded
expanded(self, point) ==
    IF contains(self, point)
    THEN self
    ELSE LET left == Min(point[1], Left(self))
             top == Min(point[2], Top(self))
         IN  Rectangle(left, top, Max(Right(self), point[1]) - left,
                       Max(Bottom(self), point[2]) - top)

\* ------------------------------------------------ specification: rectangles

\* the rectangles operations start from and are given
Rects ==
    {Rectangle(x, y, w, h) : x \in 0 .. RectMax, y \in 0 .. RectMax,
                             w \in 0 .. RectMax, h \in 0 .. RectMax}

\* the points given to expanded: around and inside the rectangles
RectPoints == (-1 .. (2 * RectMax)) \X (-1 .. (2 * RectMax))

InitRectangle ==
    /\ dest = ConstPicture(1, 1, Zero)
    /\ src = None
    /\ saved = [dest |-> dest, src |-> src]
    /\ call = [op |-> "none", n |-> 0]
    /\ diffs = <<>>
    /\ applied = <<>>
    /\ result = None
    /\ pc = "start"
    /\ written = {}
    /\ stack = <<>>
    /\ fill = None
    /\ stamps = {}

\* the rectangle an operation is called on: any at first, then the result of
\* the operation before it
Selves ==
    IF pc = "start" THEN Rects ELSE IF result = None THEN {} ELSE {result}

\* the end of an operation c on a rectangle that made r
Made(c, r) ==
    /\ call.n < MaxOps
    /\ call' = [c EXCEPT !.n = call.n + 1]
    /\ result' = r
    /\ pc' = "rect"
    /\ UNCHANGED <<dest, src, saved, diffVars, written, fillVars, stamps>>

\* self.intersect(other)
Intersect ==
    /\ pc \in {"start", "rect"}
    /\ \E self \in Selves, other \in Rects \cup {None} :
          Made([op |-> "intersect", self |-> self, other |-> other, n |-> 0],
               intersect(self, other))

\* self.unite(other)
Unite ==
    /\ pc \in {"start", "rect"}
    /\ \E self \in Selves, other \in Rects \cup {None} :
          Made([op |-> "unite", self |-> self, other |-> other, n |-> 0],
               unite(self, other))

\* self.expanded(point)
Expanded ==
    /\ pc \in {"start", "rect"}
    /\ \E self \in Selves, point \in RectPoints :
          Made([op |-> "expanded", self |-> self, other |-> point, n |-> 0],
               expanded(self, point))

NextRectangle == Intersect \/ Unite \/ Expanded

SpecRectangle == InitRectangle /\ [][NextRectangle]_vars

\* a and b are the same rectangle, or both none
SameRect(a, b) ==
    IF a = None \/ b = None
    THEN a = None /\ b = None
    ELSE a.x = b.x /\ a.y = b.y /\ a.width = b.width /\ a.height = b.height

\* C22: for every rectangle r with non-negative size, zero-area rectangles
\* included, r.intersect(r) is a rectangle with the position and size of r.
C22_IntersectWithSelf ==
    (call.op = "intersect" /\ call.other = call.self) =>
        result # None /\ SameRect(result, call.self)

\* the points both a and b contain
SharedPoints(a, b) == {q \in RectPoints : contains(a, q) /\ contains(b, q)}

\* C23: for rectangles a and b with non-negative size, a.intersect(b) and
\* b.intersect(a) are both none or both rectangles with the same position and
\* size, and the result is none whenever a and b share no area (touching on an
\* edge and a zero area included).
C23_IntersectCommutes ==
    (call.op = "intersect" /\ call.other # None) =>
        /\ SameRect(result, intersect(call.other, call.self))
        /\ (SharedPoints(call.self, call.other) = {}) => result = None

\* the smallest rectangle that contains point and every point r contains
SmallestCover(r, point) ==
    LET S == {q \in RectPoints : contains(r, q)} \cup {point}
        xs == {q[1] : q \in S}
        ys == {q[2] : q \in S}
        left == CHOOSE x \in xs : \A o \in xs : x <= o
        top == CHOOSE y \in ys : \A o \in ys : y <= o
        right == (CHOOSE x \in xs : \A o \in xs : x >= o) + 1
        bottom == (CHOOSE y \in ys : \A o \in ys : y >= o) + 1
    IN  Rectangle(left, top, right - left, bottom - top)

\* the operands of the call are a first rectangle and a point around it
FirstOperands == call.self \in Rects

\* C24: r.expanded(p) is r itself when r contains p (left <= x < right and
\* top <= y < bottom), and otherwise the smallest rectangle that contains
\* every point r contains and, by the same test, p.
C24_ExpandedCoversPoint ==
    (call.op = "expanded" /\ FirstOperands) =>
        IF contains(call.self, call.other)
        THEN result = call.self
        ELSE /\ contains(result, call.other)
             /\ \A q \in RectPoints : contains(call.self, q) => contains(result, q)
             /\ SameRect(result, SmallestCover(call.self, call.other))

\* ----------------------------------- specification: rectangles of all kinds

\* a picture and no brush, a brush of elements, or a brush of bytes for blit
InitSizes ==
    /\ \E s \in 0 .. 1 : dest = PatternPicture(ClipW, ClipH, PicElems, s)
    /\ src \in {None, PatternPicture(BrushW, BrushH, BrushElems, 0),
                PatternPicture(BrushW, BrushH, ByteElems, 1)}
    /\ saved = [dest |-> dest, src |-> src]
    /\ call = [op |-> "none", n |-> 0]
    /\ diffs = <<>>
    /\ applied = <<>>
    /\ result = None
    /\ pc = "start"
    /\ written = {}
    /\ stack = <<>>
    /\ fill = None
    /\ stamps = {}

\* the drawing calls that return a Rectangle, with no brush or a brush of
\* elements
SizesDraw ==
    /\ src \notin ByteBrushes
    /\ \/ DrawLine
       \/ DrawLineArrays
       \/ DrawRectangle
       \/ DrawRectangleArrays
       \/ DrawEllipse
       \/ DrawEllipseArrays
       \/ DrawFillAnywhere

\* the operations on rectangles, next to a picture with no brush
SizesRectangle ==
    /\ src = None
    /\ dest = PatternPicture(ClipW, ClipH, PicElems, 0)
    /\ NextRectangle

NextSizes == SizesRectangle \/ SizesDraw \/ Blit \/ FillStep \/ FillReturn

SpecSizes == InitSizes /\ [][NextSizes]_vars

\* C25: every Rectangle the core makes has width >= 0 and height >= 0: the
\* results of intersect, unite and expanded on rectangles of non-negative size
\* after any sequence of them, and every rectangle that draw_line, blit,
\* draw_rectangle, draw_ellipse and draw_fill return, calls wholly outside the
\* picture and calls that store nothing included.
C25_SizesNeverNegative ==
    (pc \in {"rect", "done"} /\ result # None) =>
        result.width >= 0 /\ result.height >= 0

\* ------------------------------------------------- a fill runs to its end

\* pictures one row taller than those of InitFill, so that two rows that are
\* neither the top nor the bottom one lie next to each other and each pushes
\* points of the other
RECURSIVE AtMost(_, _)
AtMost(D, k) ==
    IF k = 0
    THEN {{}}
    ELSE LET P == AtMost(D, k - 1)
         IN  P \cup {S \cup {d} : S \in P, d \in D}

\* the sets of fewer than MaxWalls offsets of such a picture
TallWalls == AtMost(0 .. (FillW * (FillH + 1) - 1), MaxWalls - 1)

TallPicture(walls, ground, wall) ==
    [width |-> FillW, height |-> FillH + 1,
     data |-> [i \in 0 .. (FillW * (FillH + 1) - 1) |->
                  IF i \in walls THEN wall ELSE ground]]

InitTall ==
    /\ \E walls \in TallWalls :
          \/ /\ dest = TallPicture(walls, Zero, U32(1, 255 * Pow16))
             /\ src = None
          \/ /\ src = TallPicture(walls, U32(0, 0), U32(1, 0))
             /\ dest = ConstPicture(FillW, FillH + 1, Zero)
    /\ saved = [dest |-> dest, src |-> src]
    /\ call = [op |-> "none"]
    /\ diffs = <<>>
    /\ applied = <<>>
    /\ result = None
    /\ pc = "start"
    /\ written = {}
    /\ stack = <<>>
    /\ fill = None
    /\ stamps = {}

SpecTall == InitTall /\ [][NextFill]_vars

\* the loop of a fill has started
FillLooped == Filling /\ fill # None

\* what is left to do: the points on the stack, and three for every pixel not
\* coloured yet (a pixel coloured takes one turn and pushes at most two points)
FillMeasure ==
    Len(stack) + 3 * (Cardinality(DOMAIN dest.data) - Cardinality(written))

\* C26: draw_fill from a seed inside the picture runs to its end: every turn
\* of "while stack" lowers a measure that is never negative, so the stack
\* becomes empty, and then the call returns; all through it every pixel is
\* coloured at most once, and the points pushed, the seed included, are at
\* most 1 + 2 * (the number of pixels coloured).
C26_FillTerminates ==
    /\ [](FillLooped => /\ fill.colored = Cardinality(written)
                        /\ fill.pushed <= 1 + 2 * fill.colored
                        /\ Len(stack) <= fill.pushed
                        /\ FillMeasure >= 0)
    /\ [][pc = "loop" => \/ pc' = "done" /\ stack = <<>>
                         \/ pc' = "loop" /\ stack # <<>> /\ FillMeasure' < FillMeasure]_vars

\* a fill that returned after it had popped a point of a row that was coloured
\* already: two rows next to each other were coloured, each of which pushes a
\* point of the other
C26_Witness ==
    /\ FillLooped /\ pc = "done"
    /\ \E x1 \in 0 .. (FillW - 1), x2 \in 0 .. (FillW - 1) :
          {_get_offset(dest, x1, 1), _get_offset(dest, x2, 2)} \subseteq written
    /\ fill.pushed >= 4

\* ------------------------------------ specification: the loops of drawing

NextLoops ==
    DrawLine \/ DrawLineCentered \/ DrawLineArrays \/ CDrawLine
        \/ DrawEllipse \/ DrawEllipseArrays

SpecLoops == InitClip /\ [][NextLoops]_vars

\* the (x, y) of every turn of the loop of the line of the call, in order
LinePath ==
    (CASE call.op = "draw_line" ->
            draw_line(saved.dest, call.p0, call.p1, src, call.color, call.step)
       [] call.op = "draw_line_centered" ->
            draw_line_centered(saved.dest, call.p0, call.p1, src, call.color,
                               call.step, TRUE)
       [] call.op = "draw_line_older" ->
            draw_line_centered(saved.dest, call.p0, call.p1, src, call.color,
                               call.step, FALSE)
       [] call.op = "draw_line_arrays" ->
            draw_line_arrays(saved.dest, src, call.p0, call.p1, call.step, "cblit")
       [] call.op = "cdraw_line" ->
            draw_line_arrays(saved.dest, src, call.p0, call.p1, call.step,
                             "cdraw_line")).st.path

\* point q lies in the bounding box of the ends of the line of the call
InLineBounds(q) ==
    /\ Min(call.p0[1], call.p1[1]) <= q[1] /\ q[1] <= Max(call.p0[1], call.p1[1])
    /\ Min(call.p0[2], call.p1[2]) <= q[2] /\ q[2] <= Max(call.p0[2], call.p1[2])

\* C27: the loops run to their end. For all ends p0, p1 and every step the
\* loop of draw_line starts at p0, moves by at most 1 on each axis per turn,
\* never leaves the bounding box of p0 and p1, and is at p1 after
\* max(|x1-x0|, |y1-y0|) moves, where it ends; for radii a >= 1, b >= 1 both
\* passes of draw_ellipse end, after at most a + b + 2 turns together.
C27_LoopsRunToCompletion ==
    /\ (call.op \in LineOps) =>
          LET path == LinePath
          IN  /\ pc = "done"
              /\ Len(path) = LastSample + 1
              /\ path[1] = call.p0
              /\ path[Len(path)] = call.p1
              /\ \A k \in 1 .. Len(path) : InLineBounds(path[k])
              /\ \A k \in 1 .. (Len(path) - 1) :
                    /\ Abs(path[k + 1][1] - path[k][1]) <= 1
                    /\ Abs(path[k + 1][2] - path[k][2]) <= 1
                    /\ path[k + 1] # path[k]
    /\ (call.op \in {"draw_ellipse", "draw_ellipse_arrays"}
            /\ call.size[1] >= 1 /\ call.size[2] >= 1) =>
          /\ pc # "looping"
          /\ Cardinality(EllipseSamples) <= call.size[1] + call.size[2] + 2
          /\ EllipseInside =>
                /\ pc = "done"
                /\ {<<0, call.size[2]>>, <<call.size[1], 0>>} \subseteq EllipseSamples

\* the same without the ellipses whose radii make 2*a*a a multiple of 2^32
NarrowLoopsRunToCompletion ==
    (call.op \in {"draw_ellipse", "draw_ellipse_arrays"} => call.size # <<65536, 2>>)
        => C27_LoopsRunToCompletion

\* a line with a step that is neither flat nor upright nor diagonal, one end
\* outside the picture
C27_Witness ==
    /\ call.op = "draw_line" /\ pc = "done"
    /\ call.step = 2
    /\ LastSample >= 3
    /\ Abs(call.p1[2] - call.p0[2]) \in 1 .. 2
    /\ call.p1[1] < call.p0[1]
    /\ ~LineInside


\* ------------------------------------------------- one scan of draw_fill

\* the points a turn of "while stack" pushed, in order: the turn pops one
ScanPushed == SubSeq(stack', Len(stack), Len(stack'))

\* the columns of the row of the point popped that the turn coloured
ScanColoured ==
    {x \in 0 .. (dest.width - 1) :
        _get_offset(dest, x, stack[Len(stack)][2]) \in written' \ written}

\* the pixel dy rows from (x, y) is in the picture and has the seed's colour
ScanMatches(x, y, dy) ==
    /\ 0 <= y + dy /\ y + dy < dest.height
    /\ fill_reaches([masked |-> fill.masked, source |-> src,
                     start_col |-> fill.start_col], [pic |-> dest], x, y + dy)

\* the first columns of the maximal runs of coloured pixels of row y whose
\* neighbour dy rows away matches
ScanRuns(y, dy) ==
    {x \in ScanColoured :
        /\ ScanMatches(x, y, dy)
        /\ ~(x - 1 \in ScanColoured /\ ScanMatches(x - 1, y, dy))}

\* C28: in one scan of a row of draw_fill, for every maximal run of coloured
\* pixels whose neighbour above (below) has the seed's colour exactly one
\* point of the row above (below) is pushed, at the first pixel of the run:
\* the points pushed are those and the pushes are as many as the runs.
C28_OnePushPerRun ==
    [][(pc = "loop" /\ stack # <<>>) =>
          LET y == stack[Len(stack)][2]
              runs == {<<x, y - 1>> : x \in ScanRuns(y, -1)}
                          \cup {<<x, y + 1>> : x \in ScanRuns(y, 1)}
          IN  /\ {ScanPushed[k] : k \in 1 .. Len(ScanPushed)} = runs
              /\ Len(ScanPushed) = Cardinality(runs)]_vars

\* the same for the scans of the rows that have a row above and a row below
InnerScanOnePushPerRun ==
    [][(pc = "loop" /\ stack # <<>> /\ 0 < stack[Len(stack)][2]
            /\ stack[Len(stack)][2] < dest.height - 1) =>
          LET y == stack[Len(stack)][2]
              runs == {<<x, y - 1>> : x \in ScanRuns(y, -1)}
                          \cup {<<x, y + 1>> : x \in ScanRuns(y, 1)}
          IN  /\ {ScanPushed[k] : k \in 1 .. Len(ScanPushed)} = runs
              /\ Len(ScanPushed) = Cardinality(runs)]_vars

\* ---------------------------- specification: undoing from the edited state

\* what an edit leaves in the rectangle: the edited patterns, and all clear
UndoEdits == EditedPictures \cup {ConstPicture(DiffW, DiffH, Zero)}

\* src is the picture before the edit (A), dest the picture after it (B): B is
\* A outside the rectangle of the call and the edit inside it
InitUndo ==
    /\ \E s \in 0 .. (Len(PicElems) - 1) :
          src = PatternPicture(DiffW, DiffH, PicElems, s)
    /\ \E r \in RectsInside(DiffW, DiffH) :
          /\ call = [x |-> r[1], y |-> r[2], w |-> r[3], h |-> r[4]]
          /\ \E e \in UndoEdits :
                dest = [src EXCEPT !.data =
                           [o \in DOMAIN src.data |->
                               IF o \in RectOffsets(src, r[1], r[2], r[3], r[4])
                               THEN e.data[o] ELSE src.data[o]]]
    /\ saved = [dest |-> dest, src |-> src]
    /\ diffs = <<>>
    /\ applied = <<>>
    /\ result = None
    /\ pc = "start"
    /\ written = {}
    /\ stack = <<>>
    /\ fill = None
    /\ stamps = {}

\* d = A.make_diff(B, x, y, w, h), A being the picture before the edit
MakeUndoDiff ==
    /\ pc = "start"
    /\ diffs' = make_diff(src, dest, call.x, call.y, call.w, call.h)
    /\ result' = diffs'
    /\ pc' = "diff"
    /\ UNCHANGED <<dest, src, saved, call, applied, written, fillVars, stamps>>

NextUndo == MakeUndoDiff \/ ApplyDiff

SpecUndo == InitUndo /\ [][NextUndo]_vars

\* C29: for pictures A and B of one size that differ only inside rectangle R,
\* applying d = A.make_diff(B, R) inverted to B gives A's index byte at every
\* pixel of R, and applying d after that gives B's index byte again, also
\* where the edit left pixels of B transparent.
C29_UndoFromEdited ==
    /\ (pc = "diff" /\ applied = <<TRUE>>) =>
          \A q \in CallPixels : Byte0(At(dest, q[1], q[2])) = Byte0(At(src, q[1], q[2]))
    /\ (pc = "diff" /\ applied = <<TRUE, FALSE>>) =>
          \A q \in CallPixels :
              Byte0(At(dest, q[1], q[2])) = Byte0(At(saved.dest, q[1], q[2]))

\* the same where the edit left no pixel of the rectangle transparent
UndoFromOpaqueEdit ==
    (\A q \in CallPixels : Alpha(At(saved.dest, q[1], q[2])) # 0) => C29_UndoFromEdited

\* -------------------------- specification: a flat line and the diff of it

\* flat colours: the transparent index 0, an index no element of the picture
\* has, and indexes elements of the picture have
FlatColors == {0, 7, 200, 255}

InitFlat == InitClip /\ src = None

\* draw_line(pic, p0, p1, None, color, step)
DrawLineFlat ==
    /\ pc = "start"
    /\ \E p0 \in ClipPoints, p1 \in ClipPoints, color \in FlatColors, step \in 1 .. MaxStep :
          Drawn([op |-> "draw_line", p0 |-> p0, p1 |-> p1, color |-> color, step |-> step,
                 x |-> 0, y |-> 0, w |-> 0, h |-> 0],
                draw_line(dest, p0, p1, None, color, step))

\* the rectangles a diff of the line is made over: the whole picture, and the
\* rectangle draw_line returned where it has pixels
FlatRects ==
    {<<0, 0, dest.width, dest.height>>}
        \cup (IF result # None /\ result.width > 0 /\ result.height > 0
                  /\ RectInside(result, dest)
              THEN {<<result.x, result.y, result.width, result.height>>}
              ELSE {})

\* d = before.make_diff(pic, x, y, w, h) after the line was drawn on pic
MakeLineDiff ==
    /\ pc = "done"
    /\ \E r \in FlatRects :
          /\ call' = [call EXCEPT !.x = r[1], !.y = r[2], !.w = r[3], !.h = r[4]]
          /\ diffs' = make_diff(saved.dest, dest, r[1], r[2], r[3], r[4])
    /\ pc' = "diffed"
    /\ UNCHANGED <<dest, src, saved, applied, result, written, fillVars, stamps>>

NextFlat == DrawLineFlat \/ MakeLineDiff

SpecFlat == InitFlat /\ [][NextFlat]_vars

\* C30: every pixel draw_line wrote with a flat colour c of 0 .. 255 and no
\* brush holds c + 255 * 2^24, index byte c and alpha byte 255, also for
\* c = 0; and make_diff of the picture before the line with the picture after
\* it has, at every pixel the line wrote, the entry c minus the index byte
\* before, and 0 at every pixel the line did not write.
C30_FlatLineIsOpaque ==
    /\ (call.op = "draw_line" /\ pc \in {"done", "diffed"}) =>
          /\ written \subseteq DOMAIN dest.data
          /\ \A o \in written :
                /\ dest.data[o] = U32(call.color, 255 * Pow16)
                /\ Byte0(dest.data[o]) = call.color /\ Alpha(dest.data[o]) = 255
          /\ \A o \in DOMAIN dest.data \ written : dest.data[o] = saved.dest.data[o]
    /\ pc = "diffed" =>
          /\ DOMAIN diffs = 0 .. (call.w * call.h - 1)
          /\ \A q \in CallPixels :
                diffs[(q[2] - call.y) * call.w + (q[1] - call.x)]
                    = IF _get_offset(dest, q[1], q[2]) \in written
                      THEN call.color - Byte0(At(saved.dest, q[1], q[2]))
                      ELSE 0

\* a line of the transparent index 0, one end outside the picture, and the
\* diff over the rectangle it returned: an entry below 0 at a pixel
\* written, an entry 0 at a pixel written whose index was 0, and a pixel of the
\* rectangle that was not written and had another index
C30_Witness ==
    /\ pc = "diffed" /\ call.color = 0
    /\ ~LineInside
    /\ call.w < dest.width
    /\ \E q \in CallPixels :
          /\ _get_offset(dest, q[1], q[2]) \in written
          /\ diffs[(q[2] - call.y) * call.w + (q[1] - call.x)] < 0
    /\ \E q \in CallPixels :
          /\ _get_offset(dest, q[1], q[2]) \in written
          /\ Alpha(At(saved.dest, q[1], q[2])) = 0
    /\ \E q \in CallPixels :
          /\ _get_offset(dest, q[1], q[2]) \notin written
          /\ Byte0(At(saved.dest, q[1], q[2])) # 0

====
